---- MODULE Spec2Model ----
(***************************************************************************)
(* Model of the LLM-export core of jot: the tokenizer-driven chunking      *)
(* strategies (internal/chunking), the JSONL and llms-full exporters       *)
(* (internal/export) and the ignore matcher (internal/scanner).            *)
(*                                                                         *)
(* Strings are sequences of one-character strings; byte offsets are the    *)
(* 0-based Go offsets, so Slice(s, a, b) is Go's s[a:b].                   *)
(***************************************************************************)
EXTENDS Integers, Sequences, FiniteSets, TLC

VARIABLES
    pc,             \* position of the running operation
    doc_ID,         \* doc.ID of the document being chunked
    content,        \* string(doc.Content) of the document being chunked
    strategy,       \* name given to NewChunkStrategy
    maxTokens,      \* maxTokens argument of Chunk / ToJSONL
    overlapTokens,  \* overlapTokens argument of Chunk / ToJSONL
    chunks,         \* the chunks slice being built
    chunkID,        \* the chunkID counter
    startPos,       \* FixedSizeStrategy.Chunk: startPos of the loop
    sections,       \* MarkdownHeaderStrategy.Chunk: sections still to convert
    charOffset,     \* MarkdownHeaderStrategy.Chunk: charOffset
    stack,          \* RecursiveStrategy: pending recursiveSplit calls, first is next
    documents,      \* the documents argument of an exporter
    docIndex,       \* index of the next document of the exporter's loop
    builder,        \* the exporter's strings.Builder, as the pieces written
    sortedDocs,     \* ToLLMSFullTxt: sortedDocs
    patterns,       \* IgnoreFilter.patterns
    path,           \* the path argument of ShouldIgnore
    patIndex,       \* ShouldIgnore: index of the next pattern of the loop
    result,         \* ShouldIgnore: the outcome of the call
    arg,            \* the arguments of a call of a function without loop state
    ret,            \* what that call returned
    walk            \* Scan: the visits filepath.WalkDir has still to make

chunkVars == <<doc_ID, content, strategy, maxTokens, overlapTokens, chunks, chunkID,
               startPos, sections, charOffset, stack>>

exportVars == <<documents, docIndex, builder, sortedDocs>>

ignoreVars == <<patterns, path, patIndex, result>>

callVars == <<arg, ret, walk>>

vars == <<pc, chunkVars, exportVars, ignoreVars, callVars>>

\* the variables the chunking strategies leave alone
notChunkVars == <<exportVars, ignoreVars, callVars>>

----------------------------------------------------------------------------
(* Bounds of the model *)

MaxBodyLen == 4
MaxTok == 3
MaxChunks == MaxBodyLen + 2
MaxDocs == 3
MaxJsonlDocs == 2
MaxPatterns == 2

----------------------------------------------------------------------------
(* Go string primitives on sequences of characters *)

Max2(a, b) == IF a > b THEN a ELSE b

\* s[i] for a 0-based byte index
At(s, i) == s[i + 1]

\* s[a:b]
Slice(s, a, b) == SubSeq(s, a + 1, b)

SeqsUpTo(S, n) == UNION {[1..k -> S] : k \in 0..n}

HasPrefix(s, p) == Len(s) >= Len(p) /\ Slice(s, 0, Len(p)) = p

HasSuffix(s, p) == Len(s) >= Len(p) /\ Slice(s, Len(s) - Len(p), Len(s)) = p

\* strings.Index(s, sep) from position `from`; -1 when absent
IndexFrom(s, sep, from) ==
    LET hits == {i \in from..(Len(s) - Len(sep)) : Slice(s, i, i + Len(sep)) = sep}
    IN IF hits = {} THEN -1 ELSE CHOOSE i \in hits : \A j \in hits : i <= j

Contains(s, sub) == IndexFrom(s, sub, 0) >= 0

RECURSIVE SplitFrom(_, _, _)
SplitFrom(s, sep, from) ==
    LET i == IndexFrom(s, sep, from)
    IN IF i < 0 THEN <<Slice(s, from, Len(s))>>
       ELSE <<Slice(s, from, i)>> \o SplitFrom(s, sep, i + Len(sep))

\* strings.Split(s, sep) for a non-empty separator
Split(s, sep) == SplitFrom(s, sep, 0)

RECURSIVE Join(_, _)
Join(parts, sep) ==
    IF Len(parts) = 0 THEN <<>>
    ELSE IF Len(parts) = 1 THEN parts[1]
    ELSE parts[1] \o sep \o Join(Tail(parts), sep)

----------------------------------------------------------------------------
(* Tokenizer: Count(text) = len(Encode(text)).  Encode is the cl100k_base  *)
(* encoding; over the alphabet of the model every piece its splitting      *)
(* pattern yields is one token, so Count is the number of pieces.          *)

NL == "\n"

Letters == {"a"}

IsLetter(c) == c \in Letters

IsNewline(c) == c = NL

IsSpace(c) == c = " " \/ c = NL

IsPunct(c) == ~IsLetter(c) /\ ~IsSpace(c)

InClass(c, cls) ==
    CASE cls = "letter" -> IsLetter(c)
      [] cls = "punct" -> IsPunct(c)
      [] cls = "newline" -> IsNewline(c)
      [] OTHER -> IsSpace(c)

\* end (exclusive) of the maximal run of characters of class `cls` from i
RECURSIVE RunEnd(_, _, _)
RunEnd(text, i, cls) ==
    IF i < Len(text) /\ InClass(At(text, i), cls) THEN RunEnd(text, i + 1, cls)
    ELSE i

\* the last newline of text[i:w], or -1
RECURSIVE LastNewline(_, _, _)
LastNewline(text, i, w) ==
    IF w <= i THEN -1
    ELSE IF IsNewline(At(text, w - 1)) THEN w - 1
    ELSE LastNewline(text, i, w - 1)

\* end (exclusive) of the piece that starts at i < Len(text), by the
\* alternatives of the splitting pattern in their order:
\*   [^\r\n\p{L}\p{N}]?\p{L}+  |  ?[^\s\p{L}\p{N}]+[\r\n]*  |  \s*[\r\n]+
\*   |  \s+(?!\S)  |  \s+
PieceEnd(text, i) ==
    LET c == At(text, i)
        n == Len(text)
        nextIs(cls) == i + 1 < n /\ InClass(At(text, i + 1), cls)
    IN IF IsLetter(c) THEN RunEnd(text, i, "letter")
       ELSE IF ~IsNewline(c) /\ nextIs("letter") THEN RunEnd(text, i + 1, "letter")
       ELSE IF IsPunct(c) THEN RunEnd(text, RunEnd(text, i, "punct"), "newline")
       ELSE IF c = " " /\ nextIs("punct")
       THEN RunEnd(text, RunEnd(text, i + 1, "punct"), "newline")
       ELSE LET w == RunEnd(text, i, "space")
                k == LastNewline(text, i, w)
            IN IF k >= 0 THEN k + 1
               ELSE IF w = n THEN w
               ELSE IF w - i >= 2 THEN w - 1
               ELSE w

RECURSIVE CountFrom(_, _)
CountFrom(text, i) ==
    IF i >= Len(text) THEN 0 ELSE 1 + CountFrom(text, PieceEnd(text, i))

Count(text) == CountFrom(text, 0)

----------------------------------------------------------------------------
(* export.Chunk and the chunk id "<doc.ID>-chunk-<n>" *)

\* the ID of the document of a bare Chunk call
DocID == "doc"

ChunkIDOf(docID, n) == <<docID, "-chunk-", n>>

MkChunk(id, text, start, end, tokens) ==
    [ID |-> id, Text |-> text, StartPos |-> start, EndPos |-> end,
     TokenCount |-> tokens]

----------------------------------------------------------------------------
(* FixedSizeStrategy.Chunk *)

BackoffWindow == 100

\* the binary search for the largest prefix of text[from:] within `limit` tokens
RECURSIVE BinarySearch(_, _, _, _, _)
BinarySearch(text, from, left, right, limit) ==
    IF left < right
    THEN LET mid == (left + right + 1) \div 2
         IN IF Count(Slice(text, from, mid)) <= limit
            THEN BinarySearch(text, from, mid, right, limit)
            ELSE BinarySearch(text, from, left, mid - 1, limit)
    ELSE left

\* back off to a word boundary
WordBoundary(text, from, endPos) ==
    IF endPos < Len(text) /\ endPos > from
    THEN LET searchStart == Max2(from, endPos - BackoffWindow)
             hits == {i \in (searchStart + 1)..endPos :
                         At(text, i - 1) = " " \/ At(text, i - 1) = NL}
         IN IF hits = {} THEN endPos
            ELSE CHOOSE i \in hits : \A j \in hits : j <= i
    ELSE endPos

\* faulty variant of FixedEndPos: the search admits one token too many
FixedEndPos_oneTokenOver(text, from, maxT) ==
    IF Count(Slice(text, from, Len(text))) > maxT
    THEN WordBoundary(text, from, BinarySearch(text, from, from, Len(text), maxT + 1))
    ELSE Len(text)

\* endPos of the chunk that starts at `from`
FixedEndPos(text, from, maxT) ==
    IF Count(Slice(text, from, Len(text))) > maxT
    THEN WordBoundary(text, from, BinarySearch(text, from, from, Len(text), maxT))
    ELSE Len(text)

\* faulty variant of FixedNextStart: with an overlap the next chunk starts
\* where this one started
FixedNextStart_restart(text, from, endPos, overlapT) ==
    IF overlapT > 0 THEN from ELSE endPos

\* faulty variant of FixedNextStart: the overlap is left out
FixedNextStart_noOverlap(text, from, endPos, overlapT) == endPos

\* startPos of the next iteration, after the chunk text[from:endPos]
FixedNextStart(text, from, endPos, overlapT) ==
    IF overlapT > 0
    THEN LET targetTokens == Count(Slice(text, from, endPos)) - overlapT
         IN IF targetTokens <= 0 THEN endPos
            ELSE LET left == BinarySearch(text, from, from, endPos, targetTokens)
                 IN IF left >= endPos THEN endPos ELSE left
    ELSE endPos

FixedFits(text, maxT) == Count(text) <= maxT

FixedWhole(text, docID) ==
    <<MkChunk(ChunkIDOf(docID, 0), text, 0, Len(text), Count(text))>>

FixedEmit(text, docID, from, n, maxT) ==
    LET endPos == FixedEndPos(text, from, maxT)
        chunkText == Slice(text, from, endPos)
    IN MkChunk(ChunkIDOf(docID, n), chunkText, from, endPos, Count(chunkText))

\* the loop of FixedSizeStrategy.Chunk run to its end from startPos `from`;
\* hang is TRUE when an iteration leaves startPos where it was (the loop then
\* repeats that iteration forever)
RECURSIVE FixedRun(_, _, _, _, _, _, _)
FixedRun(text, docID, maxT, overlapT, from, n, acc) ==
    IF from >= Len(text) THEN [chunks |-> acc, hang |-> FALSE]
    ELSE LET c == FixedEmit(text, docID, from, n, maxT)
             next == FixedNextStart(text, from, c.EndPos, overlapT)
         IN IF c.EndPos >= Len(text)
            THEN [chunks |-> Append(acc, c), hang |-> FALSE]
            ELSE IF next = from
            THEN [chunks |-> Append(acc, c), hang |-> TRUE]
            ELSE FixedRun(text, docID, maxT, overlapT, next, n + 1, Append(acc, c))

\* FixedSizeStrategy.Chunk as a function of its arguments
FixedChunk(text, docID, maxT, overlapT) ==
    IF FixedFits(text, maxT)
    THEN [chunks |-> FixedWhole(text, docID), hang |-> FALSE]
    ELSE FixedRun(text, docID, maxT, overlapT, 0, 0, <<>>)

----------------------------------------------------------------------------
(* MarkdownHeaderStrategy.Chunk *)

HeaderMaxLevel == 6

\* headerRegex ^#{1,6}\s+(.+)$ on one line (a line holds no newline)
IsHeaderLine(line) ==
    \E k \in 1..HeaderMaxLevel :
       /\ k <= Len(line)
       /\ \A j \in 0..(k - 1) : At(line, j) = "#"
       /\ Len(line) >= k + 2
       /\ IsSpace(At(line, k))

MkSection(startLine, endLine, lines) ==
    [startLine |-> startLine, endLine |-> endLine, text |-> Join(lines, <<NL>>)]

\* the loop over lines that finds the header boundaries, from line index i
RECURSIVE HeaderScan(_, _, _, _, _)
HeaderScan(lines, i, currentStart, currentLines, acc) ==
    IF i >= Len(lines)
    THEN IF Len(currentLines) > 0
         THEN Append(acc, MkSection(currentStart, Len(lines) - 1, currentLines))
         ELSE acc
    ELSE IF IsHeaderLine(lines[i + 1]) /\ i > 0
    THEN HeaderScan(lines, i + 1, i, <<lines[i + 1]>>,
                    IF Len(currentLines) > 0
                    THEN Append(acc, MkSection(currentStart, i - 1, currentLines))
                    ELSE acc)
    ELSE HeaderScan(lines, i + 1, currentStart, Append(currentLines, lines[i + 1]), acc)

\* faulty variant of HeaderSections: the body is one section
HeaderSections_noSplit(text) ==
    <<MkSection(0, Len(Split(text, <<NL>>)) - 1, Split(text, <<NL>>))>>

HeaderSections(text) == HeaderScan(Split(text, <<NL>>), 0, 0, <<>>, <<>>)

\* the chunks of an oversized section: the fixed-size chunks renumbered from n
\* and shifted by charOffset
RECURSIVE Renumber(_, _, _, _)
Renumber(cs, docID, n, off) ==
    IF cs = <<>> THEN <<>>
    ELSE <<[cs[1] EXCEPT !.ID = ChunkIDOf(docID, n),
                         !.StartPos = @ + off,
                         !.EndPos = @ + off]>>
         \o Renumber(Tail(cs), docID, n + 1, off)

\* faulty variant of HeaderSectionChunks: a section that fits ends after the
\* newline that follows it
HeaderSectionChunks_pastNewline(section, docID, n, off, maxT, overlapT) ==
    LET sectionTokens == Count(section.text)
    IN IF sectionTokens <= maxT
       THEN [chunks |-> <<MkChunk(ChunkIDOf(docID, n), section.text, off,
                                  off + Len(section.text) + 1, sectionTokens)>>,
             hang |-> FALSE]
       ELSE LET r == FixedChunk(section.text, docID, maxT, overlapT)
            IN [chunks |-> Renumber(r.chunks, docID, n, off), hang |-> r.hang]

\* faulty variant of HeaderSectionChunks: the fixed-size chunks keep the
\* ordinals the fixed-size strategy gave them
HeaderSectionChunks_ownOrdinals(section, docID, n, off, maxT, overlapT) ==
    LET sectionTokens == Count(section.text)
    IN IF sectionTokens <= maxT
       THEN [chunks |-> <<MkChunk(ChunkIDOf(docID, n), section.text, off,
                                  off + Len(section.text), sectionTokens)>>,
             hang |-> FALSE]
       ELSE LET r == FixedChunk(section.text, docID, maxT, overlapT)
            IN [chunks |-> Renumber(r.chunks, docID, 0, off), hang |-> r.hang]

\* the body of the loop over sections: the chunks one section adds
HeaderSectionChunks(section, docID, n, off, maxT, overlapT) ==
    LET sectionTokens == Count(section.text)
    IN IF sectionTokens <= maxT
       THEN [chunks |-> <<MkChunk(ChunkIDOf(docID, n), section.text, off,
                                  off + Len(section.text), sectionTokens)>>,
             hang |-> FALSE]
       ELSE LET r == FixedChunk(section.text, docID, maxT, overlapT)
            IN [chunks |-> Renumber(r.chunks, docID, n, off), hang |-> r.hang]

----------------------------------------------------------------------------
(* RecursiveStrategy.Chunk *)

Separators == << <<NL, NL>>, <<NL>>, <<" ">>, <<>> >>

Frame(text, offset, depth) == [text |-> text, offset |-> offset, depth |-> depth]

\* faulty variant of CharSplit: the second half keeps the offset of the first
CharSplit_sameOffset(text, offset, depth, maxT) ==
    LET left == BinarySearch(text, 0, 0, Len(text), maxT)
    IN IF left > 0
       THEN <<Frame(Slice(text, 0, left), offset, depth),
              Frame(Slice(text, left, Len(text)), offset, 0)>>
       ELSE <<>>

\* the character-level split: the two recursive calls, or none when left = 0
CharSplit(text, offset, depth, maxT) ==
    LET left == BinarySearch(text, 0, 0, Len(text), maxT)
    IN IF left > 0
       THEN <<Frame(Slice(text, 0, left), offset, depth),
              Frame(Slice(text, left, Len(text)), offset + left, 0)>>
       ELSE <<>>

\* the final forced split of recursiveSplit
ForceSplit(text, offset, maxT) ==
    LET left == BinarySearch(text, 0, 0, Len(text), maxT)
    IN IF left > 0 /\ left < Len(text)
       THEN <<Frame(Slice(text, 0, left), offset, 0),
              Frame(Slice(text, left, Len(text)), offset + left, 0)>>
       ELSE <<>>

\* the loop over parts, from part index i: the recursive calls it makes, in order
RECURSIVE PartsLoop(_, _, _, _, _, _, _, _)
PartsLoop(parts, i, currentPart, currentOffset, separator, depth, maxT, acc) ==
    IF i >= Len(parts) THEN acc
    ELSE LET part == parts[i + 1]
             testText == (IF currentPart # <<>> THEN currentPart \o separator
                          ELSE currentPart) \o part
             add == Count(testText) <= maxT \/ currentPart = <<>>
             newPart == IF add THEN testText ELSE part
             newOffset == IF add THEN currentOffset
                          ELSE currentOffset + Len(currentPart) + Len(separator)
             acc1 == IF add THEN acc
                     ELSE Append(acc, Frame(currentPart, currentOffset, depth + 1))
             acc2 == IF i = Len(parts) - 1 /\ newPart # <<>>
                     THEN Append(acc1, Frame(newPart, newOffset, depth + 1))
                     ELSE acc1
         IN PartsLoop(parts, i + 1, newPart, newOffset, separator, depth, maxT, acc2)

\* faulty variant of RecursiveCalls: the text that does not fit is handed on
\* at the same depth
RecursiveCalls_sameDepth(text, offset, depth, maxT) ==
    <<Frame(text, offset, depth)>>

\* the recursive calls one recursiveSplit call makes when its text does not fit
RecursiveCalls(text, offset, depth, maxT) ==
    LET nextLevel == IF depth + 1 < Len(Separators)
                     THEN <<Frame(text, offset, depth + 1)>>
                     ELSE ForceSplit(text, offset, maxT)
    IN IF depth < Len(Separators)
       THEN LET separator == Separators[depth + 1]
            IN IF separator = <<>> THEN CharSplit(text, offset, depth, maxT)
               ELSE LET parts == Split(text, separator)
                    IN IF Len(parts) > 1
                       THEN PartsLoop(parts, 0, <<>>, offset, separator, depth,
                                      maxT, <<>>)
                       ELSE nextLevel
       ELSE nextLevel

----------------------------------------------------------------------------
(* Paths: byte order, filepath.Base, strings.ToLower *)

\* the byte of a character
Code(c) ==
    CASE c = NL -> 10 [] c = " " -> 32 [] c = "#" -> 35 [] c = "*" -> 42
      [] c = "." -> 46 [] c = "/" -> 47
      [] c = "A" -> 65 [] c = "D" -> 68 [] c = "E" -> 69 [] c = "M" -> 77
      [] c = "R" -> 82 [] c = "Z" -> 90
      [] c = "a" -> 97 [] c = "b" -> 98 [] c = "d" -> 100 [] c = "e" -> 101
      [] c = "m" -> 109 [] c = "r" -> 114 [] c = "x" -> 120 [] c = "z" -> 122

\* a < b for Go strings
RECURSIVE StrLess(_, _)
StrLess(a, b) ==
    IF b = <<>> THEN FALSE
    ELSE IF a = <<>> THEN TRUE
    ELSE IF Code(a[1]) # Code(b[1]) THEN Code(a[1]) < Code(b[1])
    ELSE StrLess(Tail(a), Tail(b))

LowerChar(c) ==
    CASE c = "A" -> "a" [] c = "D" -> "d" [] c = "E" -> "e" [] c = "M" -> "m"
      [] c = "R" -> "r" [] c = "Z" -> "z" [] OTHER -> c

ToLower(s) == [i \in 1..Len(s) |-> LowerChar(s[i])]

RECURSIVE TrimSlashes(_)
TrimSlashes(s) ==
    IF Len(s) > 0 /\ s[Len(s)] = "/" THEN TrimSlashes(Slice(s, 0, Len(s) - 1)) ELSE s

\* strings.LastIndex(s, "/")
LastSlash(s) ==
    LET hits == {i \in 0..(Len(s) - 1) : At(s, i) = "/"}
    IN IF hits = {} THEN -1 ELSE CHOOSE i \in hits : \A j \in hits : j <= i

\* filepath.Base
Base(p) ==
    IF p = <<>> THEN <<".">>
    ELSE LET t == TrimSlashes(p)
             rest == Slice(t, LastSlash(t) + 1, Len(t))
         IN IF rest = <<>> THEN <<"/">> ELSE rest

ReadmeName == <<"r", "e", "a", "d", "m", "e", ".", "m", "d">>

IsReadme(doc) == ToLower(Base(doc.RelativePath)) = ReadmeName

----------------------------------------------------------------------------
(* sortDocumentsByImportance and ToLLMSFullTxt *)

\* faulty variant of ImportanceLess: the path order alone
ImportanceLess_pathOnly(di, dj) == StrLess(di.RelativePath, dj.RelativePath)

\* faulty variant of ImportanceLess: two READMEs are never swapped
ImportanceLess_readmesEqual(di, dj) ==
    IF IsReadme(di) /\ ~IsReadme(dj) THEN TRUE
    ELSE IF ~IsReadme(di) /\ IsReadme(dj) THEN FALSE
    ELSE IF IsReadme(di) /\ IsReadme(dj) THEN FALSE
    ELSE StrLess(di.RelativePath, dj.RelativePath)

\* the less function given to sort.Slice, on two documents
ImportanceLess(di, dj) ==
    IF IsReadme(di) /\ ~IsReadme(dj) THEN TRUE
    ELSE IF ~IsReadme(di) /\ IsReadme(dj) THEN FALSE
    ELSE StrLess(di.RelativePath, dj.RelativePath)

Swap(arr, i, j) == [arr EXCEPT ![i] = arr[j], ![j] = arr[i]]

\* sort.Slice on a slice of at most 12 elements is an insertion sort; this is
\* its inner loop, which sinks element j (1-based) to its place
RECURSIVE SinkDown(_, _)
SinkDown(arr, j) ==
    IF j > 1 /\ ImportanceLess(arr[j], arr[j - 1])
    THEN SinkDown(Swap(arr, j, j - 1), j - 1)
    ELSE arr

RECURSIVE InsertionSort(_, _)
InsertionSort(arr, i) ==
    IF i > Len(arr) THEN arr ELSE InsertionSort(SinkDown(arr, i), i + 1)

sortDocumentsByImportance(docs) == InsertionSort(docs, 2)

----------------------------------------------------------------------------
(* ChunkMetadata and ToJSONL *)

\* the zero value of a string field
NoID == <<>>

\* faulty variant of ChunkMetadata: the next link of a chunk names the chunk
\* itself
ChunkMetadata_nextIsSelf(doc, cs, i) ==
    [doc_id |-> doc.ID,
     chunk_id |-> cs[i].ID,
     text |-> cs[i].Text,
     token_count |-> cs[i].TokenCount,
     source |-> doc.RelativePath,
     start_pos |-> cs[i].StartPos,
     end_pos |-> cs[i].EndPos,
     prev_chunk_id |-> IF i > 1 THEN cs[i - 1].ID ELSE NoID,
     next_chunk_id |-> IF i < Len(cs) THEN cs[i].ID ELSE NoID]

\* the ChunkMetadata of chunk i (1-based) of cs
ChunkMetadata(doc, cs, i) ==
    [doc_id |-> doc.ID,
     chunk_id |-> cs[i].ID,
     text |-> cs[i].Text,
     token_count |-> cs[i].TokenCount,
     source |-> doc.RelativePath,
     start_pos |-> cs[i].StartPos,
     end_pos |-> cs[i].EndPos,
     prev_chunk_id |-> IF i > 1 THEN cs[i - 1].ID ELSE NoID,
     next_chunk_id |-> IF i < Len(cs) THEN cs[i + 1].ID ELSE NoID]

\* the JSON string escape of a string: a newline becomes backslash, n
RECURSIVE EscapeString(_)
EscapeString(str) ==
    IF str = <<>> THEN <<>>
    ELSE (IF str[1] = NL THEN <<"\\", "n">> ELSE <<str[1]>>) \o EscapeString(Tail(str))

\* json.Marshal of a ChunkMetadata: the object as the mapping of the keys it
\* holds, the text as its JSON string; the omitempty keys are left out when
\* empty (vector is never set)
Marshal(m) ==
    LET keys == {"doc_id", "chunk_id", "text", "token_count", "source",
                 "start_pos", "end_pos"}
                \cup (IF m.prev_chunk_id # NoID THEN {"prev_chunk_id"} ELSE {})
                \cup (IF m.next_chunk_id # NoID THEN {"next_chunk_id"} ELSE {})
    IN [k \in keys |-> IF k = "text" THEN EscapeString(m.text) ELSE m[k]]

\* faulty variant of WriteLine: the newline is written between the lines of a
\* document, not after each
WriteLine_separator(doc, cs, i) ==
    <<[kind |-> "json", bytes |-> Marshal(ChunkMetadata(doc, cs, i))]>>
    \o (IF i < Len(cs) THEN <<[kind |-> "text", bytes |-> <<NL>>]>> ELSE <<>>)

\* the two writes of the inner loop of ToJSONL for chunk i
WriteLine(doc, cs, i) ==
    <<[kind |-> "json", bytes |-> Marshal(ChunkMetadata(doc, cs, i))],
      [kind |-> "text", bytes |-> <<NL>>]>>

\* what the inner loop of ToJSONL writes for one document's chunks
RECURSIVE WriteChunks(_, _, _)
WriteChunks(doc, cs, i) ==
    IF i > Len(cs) THEN <<>>
    ELSE WriteLine(doc, cs, i) \o WriteChunks(doc, cs, i + 1)

----------------------------------------------------------------------------
(* IgnoreFilter *)

\* filepath.ToSlash: the separator of the build is already the slash
ToSlash(s) == s

\* filepath.Match(pattern, name) for patterns whose only special character is
\* the star, which matches any run of non-separator characters
RECURSIVE Match(_, _)
Match(pattern, name) ==
    IF pattern = <<>> THEN name = <<>>
    ELSE IF pattern[1] = "*"
    THEN \/ Match(Tail(pattern), name)
         \/ (name # <<>> /\ name[1] # "/" /\ Match(pattern, Tail(name)))
    ELSE name # <<>> /\ name[1] = pattern[1] /\ Match(Tail(pattern), Tail(name))

Star == <<"*">>

\* matchWildcard slices pattern[1 : len(pattern)-1] when the pattern both
\* starts and ends with a star: out of range for the one-character pattern
matchWildcardPanics(pattern) ==
    HasPrefix(pattern, Star) /\ HasSuffix(pattern, Star) /\ 1 > Len(pattern) - 1

\* matchWildcard, for a pattern on which it does not panic
matchWildcard(pattern, p) ==
    IF HasPrefix(pattern, Star) /\ HasSuffix(pattern, Star)
    THEN Contains(p, Slice(pattern, 1, Len(pattern) - 1))
    ELSE IF HasPrefix(pattern, Star)
    THEN HasSuffix(p, Slice(pattern, 1, Len(pattern)))
    ELSE IF HasSuffix(pattern, Star)
    THEN HasPrefix(p, Slice(pattern, 0, Len(pattern) - 1))
    ELSE Match(pattern, Base(p))

\* matchInSubpath, for a pattern on which matchWildcard does not panic
matchInSubpath(pattern, p) ==
    LET parts == Split(p, <<"/">>)
    IN \E i \in 0..(Len(parts) - 1) :
          \E j \in i..Len(parts) :
             LET subpath == Join(Slice(parts, i, j), <<"/">>)
             IN matchWildcard(pattern, subpath) \/ Match(pattern, subpath)

HiddenDirs == <<".", "*", "/", "*", "*">>

IsHiddenPart(part) ==
    HasPrefix(part, <<".">>) /\ part # <<".">> /\ part # <<".", ".">>

\* matchPattern: "true", "false", or "panic" when the call does not return
matchPattern(pattern, p) ==
    LET parts == Split(p, <<"/">>)
        bool(b) == IF b THEN "true" ELSE "false"
    IN IF pattern = p THEN "true"
       ELSE IF HasSuffix(pattern, <<"/">>) THEN bool(HasPrefix(p, pattern))
       ELSE IF Contains(pattern, Star)
       THEN IF HasPrefix(pattern, <<"*", "*", "/">>)
            THEN LET suffix == Slice(pattern, 3, Len(pattern))
                 IN IF suffix = HiddenDirs
                       /\ \E k \in 1..Len(parts) : IsHiddenPart(parts[k])
                    THEN "true"
                    ELSE IF matchWildcardPanics(suffix) THEN "panic"
                    ELSE bool(matchWildcard(suffix, p) \/ matchInSubpath(suffix, p))
            ELSE IF HasSuffix(pattern, <<"/", "*", "*">>)
            THEN LET prefix == Slice(pattern, 0, Len(pattern) - 3)
                 IN bool(HasPrefix(p, prefix \o <<"/">>) \/ p = prefix)
            ELSE IF matchWildcardPanics(pattern) THEN "panic"
            ELSE bool(matchWildcard(pattern, p))
       ELSE bool(\E i \in 0..(Len(parts) - 1) :
                    pattern = Join(Slice(parts, 0, i + 1), <<"/">>))

\* ShouldIgnore as a function of the pattern list and the path
RECURSIVE ShouldIgnoreFrom(_, _, _)
ShouldIgnoreFrom(pats, p, i) ==
    IF i >= Len(pats) THEN "false"
    ELSE LET r == matchPattern(ToSlash(pats[i + 1]), ToSlash(p))
         IN IF r = "false" THEN ShouldIgnoreFrom(pats, p, i + 1) ELSE r

ShouldIgnore(pats, p) == ShouldIgnoreFrom(pats, p, 0)

----------------------------------------------------------------------------
(* The chunking run: Chunk(doc, maxTokens, overlapTokens) of one strategy *)

Alphabet == {"a", " ", NL, "#"}

Strategies == {"fixed", "headers", "recursive", "semantic"}

\* the variables of the operations that are not running
IdleChunk ==
    /\ doc_ID = DocID
    /\ content = <<>>
    /\ chunks = <<>>
    /\ chunkID = 0
    /\ startPos = 0
    /\ sections = <<>>
    /\ charOffset = 0
    /\ stack = <<>>

IdleLimits ==
    /\ strategy = "none"
    /\ maxTokens = 0
    /\ overlapTokens = 0

IdleExport ==
    /\ documents = <<>>
    /\ docIndex = 0
    /\ builder = <<>>
    /\ sortedDocs = <<>>

IdleIgnore ==
    /\ patterns = <<>>
    /\ path = <<>>
    /\ patIndex = 0
    /\ result = "none"

IdleCall ==
    /\ arg = <<>>
    /\ ret = <<>>
    /\ walk = <<>>

InitChunk ==
    /\ pc = "call"
    /\ doc_ID = DocID
    /\ content \in SeqsUpTo(Alphabet, MaxBodyLen)
    /\ strategy \in Strategies
    /\ maxTokens \in -1..MaxTok
    /\ overlapTokens \in 0..MaxTok
    /\ chunks = <<>>
    /\ chunkID = 0
    /\ startPos = 0
    /\ sections = <<>>
    /\ charOffset = 0
    /\ stack = <<>>
    /\ IdleExport
    /\ IdleIgnore
    /\ IdleCall

\* FixedSizeStrategy.Chunk up to the loop: the whole-body check
FixedCall ==
    /\ pc = "call"
    /\ strategy = "fixed"
    /\ IF FixedFits(content, maxTokens)
       THEN /\ chunks' = FixedWhole(content, doc_ID)
            /\ pc' = "done"
       ELSE /\ chunks' = <<>>
            /\ pc' = "fixed"
    /\ UNCHANGED <<doc_ID, content, strategy, maxTokens, overlapTokens, chunkID,
                   startPos, sections, charOffset, stack>>
    /\ UNCHANGED notChunkVars

\* one iteration of the loop of FixedSizeStrategy.Chunk
FixedLoop ==
    /\ pc = "fixed"
    /\ startPos < Len(content)
    /\ Len(chunks) < MaxChunks
    /\ LET c == FixedEmit(content, doc_ID, startPos, chunkID, maxTokens)
       IN /\ chunks' = Append(chunks, c)
          /\ chunkID' = chunkID + 1
          /\ IF c.EndPos >= Len(content)
             THEN pc' = "done" /\ startPos' = startPos
             ELSE /\ pc' = "fixed"
                  /\ startPos' = FixedNextStart(content, startPos, c.EndPos,
                                                overlapTokens)
    /\ UNCHANGED <<doc_ID, content, strategy, maxTokens, overlapTokens, sections,
                   charOffset, stack>>
    /\ UNCHANGED notChunkVars

\* the loop condition fails: return chunks
FixedExit ==
    /\ pc = "fixed"
    /\ startPos >= Len(content)
    /\ pc' = "done"
    /\ UNCHANGED <<doc_ID, content, strategy, maxTokens, overlapTokens, chunks, chunkID,
                   startPos, sections, charOffset, stack>>
    /\ UNCHANGED notChunkVars

\* faulty variant of SemanticChunk: the overlap is not handed on
SemanticChunk_noOverlap(text, docID, maxT, overlapT) ==
    FixedChunk(text, docID, maxT, 0)

\* SemanticStrategy.Chunk: s.fallbackStrat.Chunk(doc, maxTokens, overlapTokens)
SemanticChunk(text, docID, maxT, overlapT) ==
    FixedChunk(text, docID, maxT, overlapT)

\* SemanticStrategy.Chunk returns what its fallback returns, or never
\* returns when the fallback does not
SemanticCall ==
    /\ pc = "call"
    /\ strategy = "semantic"
    /\ LET r == SemanticChunk(content, doc_ID, maxTokens, overlapTokens)
       IN IF r.hang
          THEN pc' = "hang" /\ chunks' = chunks
          ELSE pc' = "done" /\ chunks' = r.chunks
    /\ UNCHANGED <<doc_ID, content, strategy, maxTokens, overlapTokens, chunkID,
                   startPos, sections, charOffset, stack>>
    /\ UNCHANGED notChunkVars

\* MarkdownHeaderStrategy.Chunk up to the loop over sections
HeaderCall ==
    /\ pc = "call"
    /\ strategy = "headers"
    /\ sections' = HeaderSections(content)
    /\ pc' = "headers"
    /\ UNCHANGED <<doc_ID, content, strategy, maxTokens, overlapTokens, chunks, chunkID,
                   startPos, charOffset, stack>>
    /\ UNCHANGED notChunkVars

\* one iteration of the loop over sections; the call of the fixed-size strategy
\* on an oversized section is part of the iteration, and when that call never
\* returns neither does this one
HeaderLoop ==
    /\ pc = "headers"
    /\ sections # <<>>
    /\ LET r == HeaderSectionChunks(sections[1], doc_ID, chunkID, charOffset,
                                    maxTokens, overlapTokens)
       IN IF r.hang
          THEN /\ pc' = "hang"
               /\ UNCHANGED <<chunks, chunkID, charOffset, sections>>
          ELSE /\ pc' = "headers"
               /\ chunks' = chunks \o r.chunks
               /\ chunkID' = chunkID + Len(r.chunks)
               /\ charOffset' = charOffset + Len(sections[1].text) + 1
               /\ sections' = Tail(sections)
    /\ UNCHANGED <<doc_ID, content, strategy, maxTokens, overlapTokens, startPos, stack>>
    /\ UNCHANGED notChunkVars

HeaderExit ==
    /\ pc = "headers"
    /\ sections = <<>>
    /\ pc' = "done"
    /\ UNCHANGED <<doc_ID, content, strategy, maxTokens, overlapTokens, chunks, chunkID,
                   startPos, sections, charOffset, stack>>
    /\ UNCHANGED notChunkVars

\* RecursiveStrategy.Chunk up to the first recursiveSplit call
RecursiveCall ==
    /\ pc = "call"
    /\ strategy = "recursive"
    /\ IF Count(content) <= maxTokens
       THEN /\ chunks' = FixedWhole(content, doc_ID)
            /\ pc' = "done"
            /\ stack' = stack
       ELSE /\ chunks' = <<>>
            /\ pc' = "recursive"
            /\ stack' = <<Frame(content, 0, 0)>>
    /\ UNCHANGED <<doc_ID, content, strategy, maxTokens, overlapTokens, chunkID,
                   startPos, sections, charOffset>>
    /\ UNCHANGED notChunkVars

\* one recursiveSplit call: it emits a chunk or makes its recursive calls
RecursiveSplit ==
    /\ pc = "recursive"
    /\ stack # <<>>
    /\ LET f == stack[1]
           tokenCount == Count(f.text)
       IN IF tokenCount <= maxTokens
          THEN /\ chunks' = Append(chunks, MkChunk(ChunkIDOf(doc_ID, chunkID), f.text,
                                                   f.offset, f.offset + Len(f.text),
                                                   tokenCount))
               /\ chunkID' = chunkID + 1
               /\ stack' = Tail(stack)
          ELSE /\ stack' = RecursiveCalls(f.text, f.offset, f.depth, maxTokens)
                           \o Tail(stack)
               /\ UNCHANGED <<chunks, chunkID>>
    /\ UNCHANGED <<pc, doc_ID, content, strategy, maxTokens, overlapTokens, startPos,
                   sections, charOffset>>
    /\ UNCHANGED notChunkVars

\* the first recursiveSplit call has returned
RecursiveExit ==
    /\ pc = "recursive"
    /\ stack = <<>>
    /\ pc' = "done"
    /\ UNCHANGED <<doc_ID, content, strategy, maxTokens, overlapTokens, chunks, chunkID,
                   startPos, sections, charOffset, stack>>
    /\ UNCHANGED notChunkVars

----------------------------------------------------------------------------
(* ToLLMSFullTxt(documents, config) *)

S_README == <<"R", "E", "A", "D", "M", "E", ".", "m", "d">>
S_d_Readme == <<"d", "/", "R", "e", "a", "d", "m", "e", ".", "m", "d">>
S_a_md == <<"a", ".", "m", "d">>
S_d_a_md == <<"d", "/", "a", ".", "m", "d">>
S_Z_md == <<"Z", ".", "m", "d">>
S_readme_dir == <<"r", "e", "a", "d", "m", "e", ".", "m", "d", "/", "a", ".", "m", "d">>

RelativePaths == {S_README, S_d_Readme, S_a_md, S_d_a_md, S_Z_md, S_readme_dir}

\* the document at position i of a document list: the documents of a scan are
\* distinct files, each with its own relative path and its own ID
MkDoc(i, rel, body) == [ID |-> <<"id", i>>, RelativePath |-> rel, Content |-> body]

InitFull ==
    /\ pc = "full"
    /\ \E n \in 0..MaxDocs :
          \E rels \in [1..n -> RelativePaths] :
             /\ \A i, j \in 1..n : rels[i] = rels[j] => i = j
             /\ documents = [i \in 1..n |-> MkDoc(i, rels[i], <<>>)]
    /\ docIndex = 0
    /\ builder = <<>>
    /\ sortedDocs = <<>>
    /\ IdleChunk
    /\ IdleLimits
    /\ IdleIgnore
    /\ IdleCall

\* ToLLMSFullTxt up to the loop: the two header lines and the sort
FullCall ==
    /\ pc = "full"
    /\ builder' = <<[kind |-> "title"], [kind |-> "description"]>>
    /\ sortedDocs' = sortDocumentsByImportance(documents)
    /\ docIndex' = 0
    /\ pc' = "full_loop"
    /\ UNCHANGED <<documents, chunkVars, ignoreVars, callVars>>

\* one iteration of the loop over sortedDocs
FullLoop ==
    /\ pc = "full_loop"
    /\ docIndex < Len(sortedDocs)
    /\ builder' = builder
                  \o (IF docIndex > 0 THEN <<[kind |-> "separator"]>> ELSE <<>>)
                  \o <<[kind |-> "document", doc |-> sortedDocs[docIndex + 1]]>>
    /\ docIndex' = docIndex + 1
    /\ UNCHANGED <<pc, documents, sortedDocs, chunkVars, ignoreVars, callVars>>

FullExit ==
    /\ pc = "full_loop"
    /\ docIndex >= Len(sortedDocs)
    /\ pc' = "done"
    /\ UNCHANGED <<documents, docIndex, builder, sortedDocs, chunkVars, ignoreVars, callVars>>

NextFull == FullCall \/ FullLoop \/ FullExit

SpecFull == InitFull /\ [][NextFull]_vars

----------------------------------------------------------------------------
(* ToJSONL(documents, chunker, maxTokens, overlapTokens) *)

Body_one == <<"a">>
Body_words == <<"a", " ", "a", " ", "a">>
Body_header == <<"a", NL, "#", " ", "a">>
Body_paras == <<"a", NL, NL, "a", " ", "a">>

JsonlBodies == {<<>>, Body_one, Body_words, Body_header, Body_paras}

\* chunker is one of the strategies, or nil ("none")
Chunkers == Strategies \cup {"none"}

InitJSONL ==
    /\ pc = "jsonl"
    /\ \E n \in 0..MaxJsonlDocs :
          \E bodies \in [1..n -> JsonlBodies] :
             documents = [i \in 1..n |-> MkDoc(i, S_a_md, bodies[i])]
    /\ strategy \in Chunkers
    /\ maxTokens \in -1..MaxTok
    /\ overlapTokens \in 0..MaxTok
    /\ docIndex = 0
    /\ builder = <<>>
    /\ sortedDocs = <<>>
    /\ IdleChunk
    /\ IdleIgnore
    /\ IdleCall

\* the nil check of ToJSONL
JSONLCall ==
    /\ pc = "jsonl"
    /\ pc' = IF strategy = "none" THEN "error" ELSE "jsonl_loop"
    /\ UNCHANGED <<chunkVars, exportVars, ignoreVars, callVars>>

\* the loop over documents reaches a document and calls
\* chunker.Chunk(doc, maxTokens, overlapTokens)
JSONLChunk ==
    /\ pc = "jsonl_loop"
    /\ docIndex < Len(documents)
    /\ doc_ID' = documents[docIndex + 1].ID
    /\ content' = documents[docIndex + 1].Content
    /\ chunks' = <<>>
    /\ chunkID' = 0
    /\ startPos' = 0
    /\ sections' = <<>>
    /\ charOffset' = 0
    /\ stack' = <<>>
    /\ pc' = "call"
    /\ UNCHANGED <<strategy, maxTokens, overlapTokens, exportVars, ignoreVars, callVars>>

\* Chunk has returned: the loop over its chunks writes a line for each
JSONLWrite ==
    /\ pc = "done"
    /\ builder' = builder \o WriteChunks(documents[docIndex + 1], chunks, 1)
    /\ docIndex' = docIndex + 1
    /\ pc' = "jsonl_loop"
    /\ UNCHANGED <<documents, sortedDocs, chunkVars, ignoreVars, callVars>>

\* the loop over documents ends: return builder.String()
JSONLExit ==
    /\ pc = "jsonl_loop"
    /\ docIndex >= Len(documents)
    /\ pc' = "jsonl_done"
    /\ UNCHANGED <<chunkVars, exportVars, ignoreVars, callVars>>


----------------------------------------------------------------------------
(* ShouldIgnore(path) *)

Pat_star == <<"*">>
Pat_anywhere_star == <<"*", "*", "/", "*">>
Pat_a_md == <<"a", ".", "m", "d">>
Pat_dir == <<"d", "/">>
Pat_star_md == <<"*", ".", "m", "d">>
Pat_subtree == <<"d", "/", "*", "*">>
Pat_hidden == <<"*", "*", "/", ".", "*", "/", "*", "*">>
Pat_d == <<"d">>
Pat_anywhere_a_md == <<"*", "*", "/", "a", ".", "m", "d">>
Pat_a_star_md == <<"a", "*", ".", "m", "d">>
Pat_a_star == <<"a", "*">>

PatternPool == {Pat_star, Pat_anywhere_star, Pat_a_md, Pat_dir, Pat_star_md,
                Pat_subtree, Pat_hidden, Pat_d, Pat_anywhere_a_md, Pat_a_star_md,
                Pat_a_star}

Path_a_md == <<"a", ".", "m", "d">>
Path_d_a_md == <<"d", "/", "a", ".", "m", "d">>
Path_hidden == <<".", "x", "/", "a", ".", "m", "d">>
Path_b_md == <<"b", ".", "m", "d">>
Path_d_d_ab == <<"d", "/", "d", "/", "a", "b", ".", "m", "d">>

PathPool == {Path_a_md, Path_d_a_md, Path_hidden, Path_b_md, Path_d_d_ab}

InitIgnore ==
    /\ pc = "ignore"
    /\ patterns \in SeqsUpTo(PatternPool, MaxPatterns)
    /\ path \in PathPool
    /\ patIndex = 0
    /\ result = "none"
    /\ IdleChunk
    /\ IdleLimits
    /\ IdleExport
    /\ IdleCall

\* one iteration of the loop over patterns
IgnoreLoop ==
    /\ pc = "ignore"
    /\ patIndex < Len(patterns)
    /\ LET r == matchPattern(ToSlash(patterns[patIndex + 1]), ToSlash(path))
       IN IF r = "false"
          THEN patIndex' = patIndex + 1 /\ UNCHANGED <<pc, result>>
          ELSE /\ result' = r
               /\ pc' = IF r = "panic" THEN "panic" ELSE "done"
               /\ patIndex' = patIndex
    /\ UNCHANGED <<patterns, path, chunkVars, exportVars, callVars>>

\* no pattern matched
IgnoreExit ==
    /\ pc = "ignore"
    /\ patIndex >= Len(patterns)
    /\ result' = "false"
    /\ pc' = "done"
    /\ UNCHANGED <<patterns, path, patIndex, chunkVars, exportVars, callVars>>

NextIgnore == IgnoreLoop \/ IgnoreExit

SpecIgnore == InitIgnore /\ [][NextIgnore]_vars

----------------------------------------------------------------------------

NextChunk ==
    \/ FixedCall
    \/ FixedLoop
    \/ FixedExit
    \/ SemanticCall
    \/ HeaderCall
    \/ HeaderLoop
    \/ HeaderExit
    \/ RecursiveCall
    \/ RecursiveSplit
    \/ RecursiveExit

Spec == InitChunk /\ [][NextChunk]_vars

NextJSONL ==
    \/ JSONLCall
    \/ JSONLChunk
    \/ JSONLWrite
    \/ JSONLExit
    \/ NextChunk

SpecJSONL == InitJSONL /\ [][NextJSONL]_vars

----------------------------------------------------------------------------
(* Properties of the chunking strategies *)

\* the arguments are a valid pair
ValidLimits == maxTokens >= 1 /\ overlapTokens >= 0 /\ overlapTokens < maxTokens

Returned == pc = "done"

\* some line other than the first is a header line
HasLaterHeader(text) ==
    LET lines == Split(text, <<NL>>)
    IN \E i \in 2..Len(lines) : IsHeaderLine(lines[i])

OneWholeChunk ==
    /\ Len(chunks) = 1
    /\ chunks[1].StartPos = 0
    /\ chunks[1].EndPos = Len(content)
    /\ chunks[1].ID = ChunkIDOf(doc_ID, 0)

\* C1 Chunk sizing: under valid limits every chunk of every strategy has a
\* token count, counted on its text, of at most maxTokens.
C1_ChunkSizing ==
    ValidLimits => \A i \in 1..Len(chunks) : Count(chunks[i].Text) <= maxTokens

\* a fixed-size run that split the body and backed off to a word boundary
C1_Witness ==
    /\ Returned /\ ValidLimits /\ strategy = "fixed"
    /\ Len(chunks) >= 2
    /\ chunks[1].EndPos < BinarySearch(content, 0, 0, Len(content), maxTokens)

\* C2 Chunk coverage: the offsets of every chunk returned under valid limits
\* locate its text in the body, Text = body[StartPos:EndPos].
C2_ChunkCoverage ==
    (Returned /\ ValidLimits) =>
        \A i \in 1..Len(chunks) :
            /\ 0 <= chunks[i].StartPos
            /\ chunks[i].StartPos <= chunks[i].EndPos
            /\ chunks[i].EndPos <= Len(content)
            /\ chunks[i].Text = Slice(content, chunks[i].StartPos, chunks[i].EndPos)

\* C3 Single-chunk case, as claimed: every strategy returns exactly one chunk
\* [0, len(body)) with ordinal 0 whenever the body fits within maxTokens.
C3_SingleChunkAllStrategies ==
    (Returned /\ Count(content) <= maxTokens) => OneWholeChunk

\* C3 as amended: the single-chunk case holds for the fixed, recursive and
\* semantic strategies, and for the header strategy when no line after the
\* first is a header line.
C3_SingleChunk ==
    (/\ Returned
     /\ Count(content) <= maxTokens
     /\ (strategy = "headers" => ~HasLaterHeader(content)))
    => OneWholeChunk

\* a non-empty body that fits, returned by the header strategy as one chunk
C3_Witness ==
    /\ Returned /\ strategy = "headers"
    /\ Len(content) >= 3 /\ IsHeaderLine(Split(content, <<NL>>)[1])
    /\ Count(content) <= maxTokens
    /\ OneWholeChunk

\* C4 Chunk ordering: start offsets never decrease and the i-th chunk carries
\* ordinal i, also for the chunks the header strategy takes from the fixed-size
\* strategy.
C4_ChunkOrdering ==
    \A i \in 1..Len(chunks) :
        /\ chunks[i].ID = ChunkIDOf(doc_ID, i - 1)
        /\ i > 1 => chunks[i - 1].StartPos <= chunks[i].StartPos

\* the header strategy returned a chunk and then renumbered fixed-size chunks
C4_Witness ==
    /\ Returned /\ ValidLimits /\ strategy = "headers"
    /\ Len(chunks) >= 3
    /\ Len(chunks) > Len(HeaderSections(content))
    /\ Count(HeaderSections(content)[1].text) <= maxTokens

\* C5 Chunk range: every chunk returned under valid limits, here for a body
\* that is not empty, has start < end <= len(body) and a token count equal to
\* the tokenizer count of its text.
C5_ChunkRange ==
    (Returned /\ ValidLimits /\ content # <<>>) =>
        \A i \in 1..Len(chunks) :
            /\ chunks[i].StartPos < chunks[i].EndPos
            /\ chunks[i].EndPos <= Len(content)
            /\ chunks[i].TokenCount = Count(chunks[i].Text)

----------------------------------------------------------------------------
(* Properties of ToJSONL *)

\* the JSON objects of the output, in the order written
JsonLines ==
    LET IsJson(w) == w.kind = "json"
        written == SelectSeq(builder, IsJson)
    IN [k \in 1..Len(written) |-> written[k].bytes]

\* the lines of the document with the given ID
LinesOf(id) ==
    LET OfDoc(line) == line.doc_id = id
    IN SelectSeq(JsonLines, OfDoc)

\* the position of the document with the given ID in the input
PositionOf(id) == CHOOSE d \in 1..Len(documents) : documents[d].ID = id

HasKey(line, key) == key \in DOMAIN line

\* C6 JSONL navigation: among the lines of one document the first has no
\* prev_chunk_id, the last has no next_chunk_id, every other link names the
\* chunk of the neighbouring line, and no link names a chunk of another document.
C6_Navigation ==
    /\ \A d \in 1..Len(documents) :
          LET L == LinesOf(documents[d].ID)
          IN \A k \in 1..Len(L) :
                /\ HasKey(L[k], "prev_chunk_id") <=> k > 1
                /\ k > 1 => L[k].prev_chunk_id = L[k - 1].chunk_id
                /\ HasKey(L[k], "next_chunk_id") <=> k < Len(L)
                /\ k < Len(L) => L[k].next_chunk_id = L[k + 1].chunk_id
    /\ \A a, b \in 1..Len(JsonLines) :
          JsonLines[a].doc_id # JsonLines[b].doc_id =>
             /\ HasKey(JsonLines[a], "prev_chunk_id") =>
                   JsonLines[a].prev_chunk_id # JsonLines[b].chunk_id
             /\ HasKey(JsonLines[a], "next_chunk_id") =>
                   JsonLines[a].next_chunk_id # JsonLines[b].chunk_id

\* ToJSONL returned lines of two documents, one of them with a middle line
C6_Witness ==
    /\ pc = "jsonl_done"
    /\ Len(documents) = 2
    /\ Len(LinesOf(documents[1].ID)) >= 3
    /\ Len(LinesOf(documents[2].ID)) >= 2

\* the output is a run of lines, a JSON object without a raw newline and then a
\* newline, the lines of an earlier document before those of a later one
C7_Lines ==
    /\ Len(builder) % 2 = 0
    /\ \A k \in 1..Len(builder) :
          IF k % 2 = 1
          THEN /\ builder[k].kind = "json"
               /\ ~Contains(builder[k].bytes.text, <<NL>>)
          ELSE /\ builder[k].kind = "text"
               /\ builder[k].bytes = <<NL>>
    /\ \A a, b \in 1..Len(JsonLines) :
          a < b => PositionOf(JsonLines[a].doc_id) <= PositionOf(JsonLines[b].doc_id)
    /\ documents = <<>> => builder = <<>>

\* when Chunk has returned for a document, the output grows by one line per
\* returned chunk, in the order returned
C7_PerChunk ==
    (pc = "done" /\ pc' = "jsonl_loop") =>
        /\ Len(builder') = Len(builder) + 2 * Len(chunks)
        /\ SubSeq(builder', 1, Len(builder)) = builder
        /\ \A k \in 1..Len(chunks) :
              LET line == builder'[Len(builder) + 2 * k - 1].bytes
              IN /\ line.doc_id = documents[docIndex + 1].ID
                 /\ line.chunk_id = chunks[k].ID
                 /\ line.start_pos = chunks[k].StartPos
                 /\ line.end_pos = chunks[k].EndPos

\* C7 JSONL ordering: one newline-terminated line per chunk, grouped by document
\* in input order and in the chunker's order within a document, and no output
\* for an empty document list.
C7_JSONLOrdering == []C7_Lines /\ [][C7_PerChunk]_vars

\* ToJSONL returned several lines for each of two documents, one of a chunk
\* whose text holds a newline
C7_Witness ==
    /\ pc = "jsonl_done"
    /\ Len(documents) = 2
    /\ Len(LinesOf(documents[1].ID)) >= 2
    /\ Len(LinesOf(documents[2].ID)) >= 2
    /\ \E k \in 1..Len(JsonLines) : Contains(JsonLines[k].text, <<"\\", "n">>)

----------------------------------------------------------------------------
(* Properties of ToLLMSFullTxt *)

\* the documents of the output, in the order written
Emitted ==
    LET IsDoc(w) == w.kind = "document"
        written == SelectSeq(builder, IsDoc)
    IN [k \in 1..Len(written) |-> written[k].doc]

\* the position in the input of a document of the output
InputPosition(doc) == CHOOSE d \in 1..Len(documents) : documents[d] = doc

\* C8 Full-form ordering: every README is emitted before every other document,
\* the other documents in ascending order of relative path, and every input
\* document is emitted.
C8_FullOrdering ==
    /\ \A i, j \in 1..Len(Emitted) :
          i < j =>
             /\ ~(~IsReadme(Emitted[i]) /\ IsReadme(Emitted[j]))
             /\ (~IsReadme(Emitted[i]) /\ ~IsReadme(Emitted[j])) =>
                   StrLess(Emitted[i].RelativePath, Emitted[j].RelativePath)
    /\ pc = "done" =>
          /\ Len(Emitted) = Len(documents)
          /\ {Emitted[k] : k \in 1..Len(Emitted)}
                = {documents[k] : k \in 1..Len(documents)}

\* the input held two other documents in descending path order and then a README
C8_Witness ==
    /\ pc = "done"
    /\ Len(documents) = 3
    /\ ~IsReadme(documents[1]) /\ ~IsReadme(documents[2]) /\ IsReadme(documents[3])
    /\ StrLess(documents[2].RelativePath, documents[1].RelativePath)

\* C9 Full-form README stability, as claimed: the READMEs are emitted in the
\* relative order they have in the input.
C9_ReadmeStable ==
    \A i, j \in 1..Len(Emitted) :
       (i < j /\ IsReadme(Emitted[i]) /\ IsReadme(Emitted[j])) =>
          InputPosition(Emitted[i]) < InputPosition(Emitted[j])

\* C9 as amended: the READMEs are emitted in ascending order of relative path.
C9_ReadmePathOrder ==
    \A i, j \in 1..Len(Emitted) :
       (i < j /\ IsReadme(Emitted[i]) /\ IsReadme(Emitted[j])) =>
          StrLess(Emitted[i].RelativePath, Emitted[j].RelativePath)

\* the input held two READMEs in descending path order, and both were emitted
C9_Witness ==
    /\ pc = "done"
    /\ \E a, b \in 1..Len(documents) :
          /\ a < b
          /\ IsReadme(documents[a]) /\ IsReadme(documents[b])
          /\ StrLess(documents[b].RelativePath, documents[a].RelativePath)
    /\ Len(Emitted) = Len(documents)

----------------------------------------------------------------------------
(* Properties of ShouldIgnore *)

\* the orders a pattern list can be given in
Orderings(pats) ==
    LET n == Len(pats)
        orders == {f \in [1..n -> 1..n] : \A i, j \in 1..n : f[i] = f[j] => i = j}
    IN {[i \in 1..n |-> pats[f[i]]] : f \in orders}

\* C10 Ignore determinism: the outcome of ShouldIgnore is that of every order
\* of its pattern list, true exactly when some pattern matches, and false for
\* the empty list.
C10_OrderIndependent ==
    pc \in {"done", "panic"} =>
        /\ \A q \in Orderings(patterns) : ShouldIgnore(q, path) = result
        /\ result = "true" <=>
              \E k \in 1..Len(patterns) : matchPattern(patterns[k], path) = "true"
        /\ patterns = <<>> => result = "false"

\* a pattern of the simple-wildcard variant
IsSimpleWildcard(pattern) ==
    /\ Contains(pattern, Star)
    /\ ~HasPrefix(pattern, <<"*", "*", "/">>)
    /\ ~HasSuffix(pattern, <<"/", "*", "*">>)
    /\ ~HasSuffix(pattern, <<"/">>)

\* the runs of consecutive segments of a path
Subpaths(p) ==
    LET parts == Split(p, <<"/">>)
    IN {Join(Slice(parts, i, j), <<"/">>) :
           i \in 0..(Len(parts) - 1), j \in 1..Len(parts)} \ {<<>>}

\* C11 Simple-wildcard patterns: a returned call with one simple-wildcard
\* pattern ignores the path exactly when the pattern matches the basename or
\* some contiguous subpath of the path.
C11_SimpleWildcard ==
    (/\ pc = "done"
     /\ Len(patterns) = 1
     /\ IsSimpleWildcard(patterns[1]))
    => (result = "true" <=>
           \/ Match(patterns[1], Base(path))
           \/ \E sub \in Subpaths(path) : Match(patterns[1], sub))

----------------------------------------------------------------------------
(* ExtractFrontmatter(content) *)

MaxFmLines == 4

Dashes == <<"-", "-", "-">>

\* the absent (nil) mapping and the empty mapping
NilMap == "nil"
EmptyMap == "map[]"

ExtractFrontmatter(fileContent) ==
    IF ~HasPrefix(fileContent, Dashes \o <<NL>>)
    THEN [metadata |-> NilMap, body |-> fileContent]
    ELSE LET endIndex == IndexFrom(Slice(fileContent, 4, Len(fileContent)),
                                   <<NL>> \o Dashes \o <<NL>>, 0)
             frontmatterEnd == endIndex + 4 + 4
         IN IF endIndex = -1
            THEN [metadata |-> NilMap, body |-> fileContent]
            ELSE [metadata |-> EmptyMap,
                  body |-> Slice(fileContent, frontmatterEnd, Len(fileContent))]

\* the lines a file content is made of
FmLinePool == {Dashes, <<"a">>, <<>>, <<"-", "-", "-", "-">>}

InitFrontmatter ==
    /\ pc = "frontmatter"
    /\ \E lines \in SeqsUpTo(FmLinePool, MaxFmLines) : arg = Join(lines, <<NL>>)
    /\ ret = <<>>
    /\ walk = <<>>
    /\ IdleChunk
    /\ IdleLimits
    /\ IdleExport
    /\ IdleIgnore

ExtractFrontmatterCall ==
    /\ pc = "frontmatter"
    /\ ret' = ExtractFrontmatter(arg)
    /\ pc' = "returned"
    /\ UNCHANGED <<arg, walk, chunkVars, exportVars, ignoreVars>>

NextFrontmatter == ExtractFrontmatterCall

SpecFrontmatter == InitFrontmatter /\ [][NextFrontmatter]_vars

\* the index (1-based) of the first line after the first that is a delimiter,
\* 0 when there is none
ClosingLine(lines) ==
    LET hits == {k \in 2..Len(lines) : lines[k] = Dashes}
    IN IF hits = {} THEN 0 ELSE CHOOSE k \in hits : \A j \in hits : k <= j

\* C12 Frontmatter stripping: when the content starts with a line --- and has
\* a later line ---, the returned body is a rest of the content that no longer
\* begins with that block; otherwise the body is the content and the mapping
\* is nil.
C12_FrontmatterStripping ==
    pc = "returned" =>
        LET lines == Split(arg, <<NL>>)
            closing == ClosingLine(lines)
            block == Join(SubSeq(lines, 1, closing), <<NL>>)
        IN IF lines[1] = Dashes /\ closing > 0
           THEN /\ ret.body # arg
                /\ HasSuffix(arg, ret.body)
                /\ ~HasPrefix(ret.body, block)
           ELSE /\ ret.body = arg
                /\ ret.metadata = NilMap

----------------------------------------------------------------------------
(* Document.ExtractTitle() *)

\* strings.TrimSpace
RECURSIVE TrimLeft(_)
TrimLeft(str) ==
    IF str # <<>> /\ IsSpace(str[1]) THEN TrimLeft(Tail(str)) ELSE str

RECURSIVE TrimRight(_)
TrimRight(str) ==
    IF str # <<>> /\ IsSpace(str[Len(str)])
    THEN TrimRight(SubSeq(str, 1, Len(str) - 1))
    ELSE str

TrimSpace(str) == TrimRight(TrimLeft(str))

\* h1Regex ^#\s+(.+)$ matches the line
H1Matches(line) == Len(line) >= 3 /\ line[1] = "#" /\ IsSpace(line[2])

\* matches[1] of h1Regex on a line it matches: the greedy \s+ gives back one
\* character when nothing else is left for (.+)
H1Capture(line) ==
    LET rest == TrimLeft(Tail(line))
    IN IF rest # <<>> THEN rest ELSE <<line[Len(line)]>>

Untitled == <<"U", "n", "t", "i", "t", "l", "e", "d">>

RECURSIVE FirstH1(_, _)
FirstH1(lines, i) ==
    IF i > Len(lines) THEN Untitled
    ELSE IF H1Matches(lines[i]) THEN TrimSpace(H1Capture(lines[i]))
    ELSE FirstH1(lines, i + 1)

\* a value of the Metadata map under the key title: a string, a value of
\* another type, or no entry
StringValue(str) == [kind |-> "string", str |-> str]
OtherValue == [kind |-> "int", str |-> <<>>]
NoValue == [kind |-> "absent", str |-> <<>>]

\* Document.Metadata, as far as ExtractTitle reads it: whether the map is nil
\* and what it holds under the key title
MetadataMap(isNil, title) == [isNil |-> isNil, title |-> title]

ExtractTitle(d) ==
    IF /\ ~d.Metadata.isNil
       /\ d.Metadata.title.kind = "string"
       /\ d.Metadata.title.str # <<>>
    THEN d.Metadata.title.str
    ELSE FirstH1(Split(d.Content, <<NL>>), 1)

Metadatas ==
    {MetadataMap(TRUE, NoValue)}
    \cup {MetadataMap(FALSE, v) :
             v \in {StringValue(<<>>), StringValue(<<"t">>), OtherValue, NoValue}}

InitTitle ==
    /\ pc = "title"
    /\ \E c \in SeqsUpTo(Alphabet, MaxBodyLen) :
          \E m \in Metadatas : arg = [Content |-> c, Metadata |-> m]
    /\ ret = <<>>
    /\ walk = <<>>
    /\ IdleChunk
    /\ IdleLimits
    /\ IdleExport
    /\ IdleIgnore

ExtractTitleCall ==
    /\ pc = "title"
    /\ ret' = ExtractTitle(arg)
    /\ pc' = "returned"
    /\ UNCHANGED <<arg, walk, chunkVars, exportVars, ignoreVars>>

NextTitle == ExtractTitleCall

SpecTitle == InitTitle /\ [][NextTitle]_vars

\* the title candidates of a document in order: the frontmatter title, the
\* text of the first line that h1Regex matches, the literal; an absent
\* candidate is the empty string
TitleCandidates(d) ==
    LET lines == Split(d.Content, <<NL>>)
        hits == {k \in 1..Len(lines) : H1Matches(lines[k])}
        first == CHOOSE k \in hits : \A j \in hits : k <= j
    IN <<IF ~d.Metadata.isNil /\ d.Metadata.title.kind = "string"
         THEN d.Metadata.title.str ELSE <<>>,
         IF hits # {} THEN TrimSpace(H1Capture(lines[first])) ELSE <<>>,
         Untitled>>

\* C13 Title fallback: the returned title is the first non-empty candidate
\* among frontmatter title, first H1 text and "Untitled", and is not empty.
C13_TitleFallback ==
    pc = "returned" =>
        LET cands == TitleCandidates(arg)
            first == CHOOSE k \in 1..3 :
                        cands[k] # <<>> /\ \A j \in 1..(k - 1) : cands[j] = <<>>
        IN ret # <<>> /\ ret = cands[first]

----------------------------------------------------------------------------
(* NewScanner and Scanner.Scan *)

S_b_txt == <<"b", ".", "t", "x", "t">>
S_z_MD == <<"z", ".", "M", "D">>
S_r == <<"r">>
S_r_md == <<"r", ".", "m", "d">>
S_dot == <<".">>
DotMd == <<".", "m", "d">>

NoError == "nil"

\* the *Scanner returned by NewScanner: nil, or a scanner with its fields
NilScanner == [isNil |-> TRUE, rootPath |-> <<>>, filter |-> <<>>]

\* NewScanner without the os.Stat of the root
NewScanner_noStat(root, ignorePatterns) ==
    IF root.path = <<>>
    THEN [scanner |-> NilScanner, err |-> "root path cannot be empty"]
    ELSE [scanner |-> [isNil |-> FALSE, rootPath |-> root.path,
                       filter |-> ignorePatterns],
          err |-> NoError]

\* NewScanner(rootPath, ignorePatterns): root is the path given together with
\* what os.Stat finds there ("missing", "file" or "dir")
NewScanner(root, ignorePatterns) ==
    IF root.path = <<>>
    THEN [scanner |-> NilScanner, err |-> "root path cannot be empty"]
    ELSE IF root.stat = "missing"
    THEN [scanner |-> NilScanner, err |-> "root path does not exist"]
    ELSE [scanner |-> [isNil |-> FALSE, rootPath |-> root.path,
                       filter |-> ignorePatterns],
          err |-> NoError]

\* generateDocumentID: the MD5 digest of the relative path
generateDocumentID(relPath) == <<"md5", relPath>>

\* readDocument on a file whose bytes could be read
readDocument(p, relPath, fileContent) ==
    LET rel == IF relPath = S_dot THEN Base(p) ELSE relPath
        fm == ExtractFrontmatter(fileContent)
        doc == [Content |-> fm.body,
                Metadata |-> MetadataMap(fm.metadata = NilMap, NoValue)]
    IN [ID |-> generateDocumentID(rel),
        Path |-> p,
        RelativePath |-> ToSlash(rel),
        Content |-> fm.body,
        Title |-> ExtractTitle(doc)]

\* one call of the WalkDir callback by the walker: the entry's path, its path
\* relative to the root, whether it is a directory, the error the walker
\* reports for it, and for a file its bytes or the failure to read them
Visit(p, rel, isDir, err, readable, fileContent) ==
    [path |-> p, rel |-> rel, isDir |-> isDir, err |-> err,
     readable |-> readable, content |-> fileContent]

\* the callback Scan passes to filepath.WalkDir: what it returns and the
\* documents slice afterwards
ScanCallback(filter, docs, v) ==
    IF v.err # NoError THEN [returns |-> v.err, documents |-> docs]
    ELSE IF v.isDir THEN [returns |-> NoError, documents |-> docs]
    ELSE IF ~HasSuffix(ToLower(v.path), DotMd)
    THEN [returns |-> NoError, documents |-> docs]
    ELSE LET ignored == ShouldIgnore(filter, v.rel)
         IN IF ignored = "panic" THEN [returns |-> "panic", documents |-> docs]
            ELSE IF ignored = "true" THEN [returns |-> NoError, documents |-> docs]
            ELSE IF ~v.readable THEN [returns |-> NoError, documents |-> docs]
            ELSE [returns |-> NoError,
                  documents |-> Append(docs, readDocument(v.path, v.rel, v.content))]

\* the entries a root directory may hold, in the lexical order of the walk
TreeEntries ==
    <<[rel |-> S_a_md, isDir |-> FALSE, parent |-> 0,
       content |-> <<"#", " ", "a">>],
      [rel |-> S_b_txt, isDir |-> FALSE, parent |-> 0, content |-> <<"b">>],
      [rel |-> <<"d">>, isDir |-> TRUE, parent |-> 0, content |-> <<>>],
      [rel |-> S_d_a_md, isDir |-> FALSE, parent |-> 3,
       content |-> Dashes \o <<NL>> \o Dashes \o <<NL, "t">>],
      [rel |-> S_z_MD, isDir |-> FALSE, parent |-> 0, content |-> <<"z">>]>>

\* a file system below the root: each entry is absent, ok or failing (a
\* directory that cannot be listed, a file that cannot be read); an entry
\* is only there inside a directory that can be listed
Trees ==
    {t \in [1..Len(TreeEntries) -> {"absent", "ok", "failing"}] :
        \A k \in 1..Len(TreeEntries) :
            (TreeEntries[k].parent # 0 /\ t[k] # "absent")
                => t[TreeEntries[k].parent] = "ok"}

\* the calls filepath.WalkDir makes for a directory: one for the entry, and
\* one more carrying the error when the directory cannot be listed
DirVisits(p, rel, status) ==
    <<Visit(p, rel, TRUE, NoError, FALSE, <<>>)>>
    \o (IF status = "failing"
        THEN <<Visit(p, rel, TRUE, "ReadDir failed", FALSE, <<>>)>>
        ELSE <<>>)

RECURSIVE EntryVisits(_, _, _)
EntryVisits(rootPath, t, k) ==
    IF k > Len(TreeEntries) THEN <<>>
    ELSE LET e == TreeEntries[k]
             p == rootPath \o <<"/">> \o e.rel
             here == IF t[k] = "absent" THEN <<>>
                     ELSE IF e.isDir THEN DirVisits(p, e.rel, t[k])
                     ELSE <<Visit(p, e.rel, FALSE, NoError, t[k] = "ok", e.content)>>
         IN here \o EntryVisits(rootPath, t, k + 1)

\* the calls filepath.WalkDir(rootPath, fn) makes as long as fn returns nil
WalkDir(root, t) ==
    IF root.stat = "missing"
    THEN <<Visit(root.path, S_dot, FALSE, "Lstat failed", FALSE, <<>>)>>
    ELSE IF root.stat = "file"
    THEN <<Visit(root.path, S_dot, FALSE, NoError, root.readable, root.content)>>
    ELSE DirVisits(root.path, S_dot, IF root.readable THEN "ok" ELSE "failing")
         \o (IF root.readable THEN EntryVisits(root.path, t, 1) ELSE <<>>)

EmptyTree == [k \in 1..Len(TreeEntries) |-> "absent"]

Root(p, stat, readable) ==
    [path |-> p, stat |-> stat, readable |-> readable,
     content |-> <<"#", " ", "r">>]

\* the roots given to NewScanner together with the file system found there
RootsAndTrees ==
    {<<Root(<<>>, "dir", TRUE), EmptyTree>>,
     <<Root(S_r, "missing", FALSE), EmptyTree>>,
     <<Root(S_r_md, "file", TRUE), EmptyTree>>,
     <<Root(S_r_md, "file", FALSE), EmptyTree>>,
     <<Root(S_r, "file", TRUE), EmptyTree>>,
     <<Root(S_r, "dir", FALSE), EmptyTree>>}
    \cup {<<Root(S_r, "dir", TRUE), t>> : t \in Trees}

ScanFilters == {<<>>, <<Pat_dir>>, <<Pat_a_md>>}

InitScan ==
    /\ pc = "new_scanner"
    /\ \E rt \in RootsAndTrees : \E f \in ScanFilters :
          arg = [root |-> rt[1], tree |-> rt[2], ignorePatterns |-> f]
    /\ ret = <<>>
    /\ walk = <<>>
    /\ documents = <<>>
    /\ docIndex = 0
    /\ builder = <<>>
    /\ sortedDocs = <<>>
    /\ IdleChunk
    /\ IdleLimits
    /\ IdleIgnore

\* NewScanner returns
NewScannerCall ==
    /\ pc = "new_scanner"
    /\ ret' = NewScanner(arg.root, arg.ignorePatterns)
    /\ pc' = IF ret'.err = NoError THEN "scanner" ELSE "no_scanner"
    /\ UNCHANGED <<arg, walk, chunkVars, exportVars, ignoreVars>>

\* Scan is called on the scanner and hands its callback to filepath.WalkDir
ScanCall ==
    /\ pc = "scanner"
    /\ documents' = <<>>
    /\ walk' = WalkDir(arg.root, arg.tree)
    /\ pc' = "walking"
    /\ UNCHANGED <<arg, ret, docIndex, builder, sortedDocs, chunkVars, ignoreVars>>

\* the walker calls the callback for its next entry; a non-nil return ends
\* the walk and Scan returns nil and the error
ScanWalk ==
    /\ pc = "walking"
    /\ walk # <<>>
    /\ LET r == ScanCallback(ret.scanner.filter, documents, Head(walk))
       IN IF r.returns = NoError
          THEN /\ documents' = r.documents
               /\ walk' = Tail(walk)
               /\ pc' = "walking"
               /\ ret' = ret
          ELSE /\ documents' = <<>>
               /\ walk' = <<>>
               /\ pc' = "scan_failed"
               /\ ret' = [scanner |-> ret.scanner, err |-> r.returns]
    /\ UNCHANGED <<arg, docIndex, builder, sortedDocs, chunkVars, ignoreVars>>

\* the walk is over and Scan returns the documents
ScanReturn ==
    /\ pc = "walking"
    /\ walk = <<>>
    /\ pc' = "scanned"
    /\ UNCHANGED <<arg, ret, walk, chunkVars, exportVars, ignoreVars>>

NextScan == NewScannerCall \/ ScanCall \/ ScanWalk \/ ScanReturn

SpecScan == InitScan /\ [][NextScan]_vars

\* C14 Scanner root validation: NewScanner returns an error and no scanner
\* for an empty root path and for a root that does not exist, and a scanner
\* and no error for every root that exists, a directory or a regular file.
C14_RootExists ==
    pc \in {"scanner", "no_scanner"} =>
        IF arg.root.path # <<>> /\ arg.root.stat # "missing"
        THEN pc = "scanner" /\ ret.err = NoError /\ ~ret.scanner.isNil
        ELSE pc = "no_scanner" /\ ret.err # NoError /\ ret.scanner.isNil

C14_Witness ==
    /\ pc = "scanner"
    /\ arg.root.stat = "file"
    /\ ~ret.scanner.isNil

\* C14 as stated: NewScanner returns an error and no scanner for an empty
\* root path, a root that does not exist and a root that exists but is not a
\* directory, and a scanner and no error only for an existing directory.
C14_RootValidation ==
    pc \in {"scanner", "no_scanner"} =>
        IF arg.root.path # <<>> /\ arg.root.stat = "dir"
        THEN pc = "scanner" /\ ret.err = NoError /\ ~ret.scanner.isNil
        ELSE pc = "no_scanner" /\ ret.err # NoError /\ ret.scanner.isNil

\* a visit of a markdown file that the filter accepts and that can be read
AcceptedFile(filter, v) ==
    /\ v.err = NoError
    /\ ~v.isDir
    /\ HasSuffix(ToLower(v.path), DotMd)
    /\ ShouldIgnore(filter, v.rel) = "false"
    /\ v.readable

RECURSIVE AcceptedFiles(_, _)
AcceptedFiles(filter, visits) ==
    IF visits = <<>> THEN <<>>
    ELSE (IF AcceptedFile(filter, Head(visits)) THEN <<Head(visits).rel>> ELSE <<>>)
         \o AcceptedFiles(filter, Tail(visits))

\* C15 Per-entry failures are non-fatal: when the root is a directory that
\* can be listed, whatever fails below it, Scan returns success with a
\* document for every accepted markdown file that could be read.
C15_EntryFailuresNonFatal ==
    (/\ pc \in {"scanned", "scan_failed"}
     /\ arg.root.stat = "dir"
     /\ arg.root.readable) =>
        /\ pc = "scanned"
        /\ ret.err = NoError
        /\ [k \in 1..Len(documents) |-> documents[k].RelativePath]
              = AcceptedFiles(arg.ignorePatterns, WalkDir(arg.root, arg.tree))

----------------------------------------------------------------------------
(* NewChunkStrategy and DefaultStrategy *)

S_fixed == <<"f", "i", "x", "e", "d">>
S_headers == <<"h", "e", "a", "d", "e", "r", "s">>
S_markdown_headers ==
    <<"m", "a", "r", "k", "d", "o", "w", "n", "-">> \o S_headers
S_recursive == <<"r", "e", "c", "u", "r", "s", "i", "v", "e">>
S_semantic == <<"s", "e", "m", "a", "n", "t", "i", "c">>

\* case "headers", "markdown-headers" of the switch, without the alias
NewChunkStrategy_noAlias(name) ==
    IF name = S_fixed THEN [strategy |-> "FixedSizeStrategy", err |-> NoError]
    ELSE IF name = S_headers
    THEN [strategy |-> "MarkdownHeaderStrategy", err |-> NoError]
    ELSE IF name = S_recursive
    THEN [strategy |-> "RecursiveStrategy", err |-> NoError]
    ELSE IF name = S_semantic
    THEN [strategy |-> "SemanticStrategy", err |-> NoError]
    ELSE [strategy |-> "nil", err |-> "unknown chunking strategy"]

\* NewChunkStrategy(name, tok): the switch on name
NewChunkStrategy(name) ==
    IF name = S_fixed THEN [strategy |-> "FixedSizeStrategy", err |-> NoError]
    ELSE IF name = S_headers \/ name = S_markdown_headers
    THEN [strategy |-> "MarkdownHeaderStrategy", err |-> NoError]
    ELSE IF name = S_recursive
    THEN [strategy |-> "RecursiveStrategy", err |-> NoError]
    ELSE IF name = S_semantic
    THEN [strategy |-> "SemanticStrategy", err |-> NoError]
    ELSE [strategy |-> "nil", err |-> "unknown chunking strategy"]

DefaultStrategy == S_fixed

UpperChar(c) ==
    CASE c = "a" -> "A" [] c = "d" -> "D" [] c = "e" -> "E" [] c = "f" -> "F"
      [] c = "h" -> "H" [] c = "i" -> "I" [] c = "r" -> "R" [] c = "s" -> "S"
      [] c = "x" -> "X" [] OTHER -> c

\* a name in every mix of upper and lower case
CaseVariants(name) ==
    {v \in [1..Len(name) -> {name[k] : k \in 1..Len(name)}
                             \cup {UpperChar(name[k]) : k \in 1..Len(name)}] :
        \A k \in 1..Len(name) : v[k] \in {name[k], UpperChar(name[k])}}

\* the names given to NewChunkStrategy
StrategyNames ==
    CaseVariants(S_fixed)
    \cup {S_headers, S_markdown_headers, S_recursive, S_semantic, <<>>,
          <<"H">> \o Tail(S_headers), <<"R">> \o Tail(S_recursive),
          <<"S">> \o Tail(S_semantic), <<"M">> \o Tail(S_markdown_headers),
          S_fixed \o <<" ">>, <<"m", "a", "r", "k", "d", "o", "w", "n">>,
          S_headers \o <<"-">>, <<"m", "d">>}

InitStrategy ==
    /\ pc = "new_strategy"
    /\ \E name \in StrategyNames : \E useDefault \in BOOLEAN :
          arg = [name |-> name, useDefault |-> useDefault]
    /\ ret = <<>>
    /\ walk = <<>>
    /\ IdleChunk
    /\ IdleLimits
    /\ IdleExport
    /\ IdleIgnore

\* the strategy name is left unspecified and DefaultStrategy() supplies it
DefaultStrategyCall ==
    /\ pc = "new_strategy"
    /\ arg.useDefault
    /\ arg' = [name |-> DefaultStrategy, useDefault |-> FALSE]
    /\ UNCHANGED <<pc, ret, walk, chunkVars, exportVars, ignoreVars>>

NewChunkStrategyCall ==
    /\ pc = "new_strategy"
    /\ ~arg.useDefault
    /\ ret' = NewChunkStrategy(arg.name)
    /\ pc' = "returned"
    /\ UNCHANGED <<arg, walk, chunkVars, exportVars, ignoreVars>>

NextStrategy == DefaultStrategyCall \/ NewChunkStrategyCall

SpecStrategy == InitStrategy /\ [][NextStrategy]_vars

\* the strategy each recognized name stands for
RecognizedStrategy(name) ==
    CASE name = S_fixed -> "FixedSizeStrategy"
      [] name = S_headers -> "MarkdownHeaderStrategy"
      [] name = S_markdown_headers -> "MarkdownHeaderStrategy"
      [] name = S_recursive -> "RecursiveStrategy"
      [] name = S_semantic -> "SemanticStrategy"
      [] OTHER -> "nil"

----------------------------------------------------------------------------
(* Overlap validation *)

\* C17 Overlap validation: a chunk call whose overlap is not below its
\* positive maximum is rejected: it emits no chunk and does not return a
\* chunk list.
C17_OverlapRejected ==
    (maxTokens >= 1 /\ overlapTokens >= maxTokens /\ content # <<>>) =>
        (chunks = <<>> /\ ~Returned)

----------------------------------------------------------------------------
(* extractFirstParagraph *)

MaxParaLines == 4

\* the length at which extractFirstParagraph stops collecting and truncates
DescriptionLimit == 100

\* the backquote character (it cannot be written inside a string here)
Backquote == "backquote"

Fence == <<Backquote, Backquote, Backquote>>
Ellipsis == <<".", ".", ".">>
NoDescription ==
    <<"N", "o", " ", "d", "e", "s", "c", "r", "i", "p", "t", "i", "o", "n", " ",
      "a", "v", "a", "i", "l", "a", "b", "l", "e">>

\* the loop over the lines from line i on: paragraph is the builder so far
RECURSIVE ParagraphLoop(_, _, _, _)
ParagraphLoop(lines, i, paragraph, foundContent) ==
    IF i > Len(lines) THEN paragraph
    ELSE LET trimmed == TrimSpace(lines[i])
         IN IF trimmed = <<>>
            THEN IF foundContent THEN paragraph
                 ELSE ParagraphLoop(lines, i + 1, paragraph, foundContent)
            ELSE IF HasPrefix(trimmed, <<"#">>)
            THEN ParagraphLoop(lines, i + 1, paragraph, foundContent)
            ELSE IF HasPrefix(trimmed, Fence)
            THEN ParagraphLoop(lines, i + 1, paragraph, foundContent)
            ELSE LET next == (IF Len(paragraph) > 0 THEN paragraph \o <<" ">>
                              ELSE paragraph) \o trimmed
                 IN IF Len(next) >= DescriptionLimit THEN next
                    ELSE ParagraphLoop(lines, i + 1, next, TRUE)

extractFirstParagraph(fileContent) ==
    LET paragraph == ParagraphLoop(Split(fileContent, <<NL>>), 1, <<>>, FALSE)
        cut == IF Len(paragraph) > DescriptionLimit
               THEN Slice(paragraph, 0, DescriptionLimit - 3) \o Ellipsis
               ELSE paragraph
    IN IF cut = <<>> THEN NoDescription ELSE cut

\* the lines a document body is made of
ParaLinePool == {<<>>, <<"a">>, <<" ", "b">>, <<"#", " ", "h">>, Fence, <<" ">>}

InitParagraph ==
    /\ pc = "paragraph"
    /\ \E lines \in SeqsUpTo(ParaLinePool, MaxParaLines) : arg = Join(lines, <<NL>>)
    /\ ret = <<>>
    /\ walk = <<>>
    /\ IdleChunk
    /\ IdleLimits
    /\ IdleExport
    /\ IdleIgnore

extractFirstParagraphCall ==
    /\ pc = "paragraph"
    /\ ret' = extractFirstParagraph(arg)
    /\ pc' = "returned"
    /\ UNCHANGED <<arg, walk, chunkVars, exportVars, ignoreVars>>

NextParagraph == extractFirstParagraphCall

SpecParagraph == InitParagraph /\ [][NextParagraph]_vars

\* line k is a fence line
IsFenceLine(lines, k) == HasPrefix(TrimSpace(lines[k]), Fence)

\* line k belongs to a fenced code block: it is a fence line or follows an
\* odd number of fence lines
InCodeBlock(lines, k) ==
    \/ IsFenceLine(lines, k)
    \/ Cardinality({j \in 1..(k - 1) : IsFenceLine(lines, j)}) % 2 = 1

\* line k is text of a paragraph: not blank, not a heading, not in a code block
IsParagraphText(lines, k) ==
    /\ TrimSpace(lines[k]) # <<>>
    /\ ~HasPrefix(TrimSpace(lines[k]), <<"#">>)
    /\ ~InCodeBlock(lines, k)

\* the text lines of the paragraph that starts at line k, up to the next
\* blank line outside a code block, joined by single spaces
RECURSIVE ParagraphFrom(_, _)
ParagraphFrom(lines, k) ==
    IF k > Len(lines) THEN <<>>
    ELSE IF TrimSpace(lines[k]) = <<>> /\ ~InCodeBlock(lines, k) THEN <<>>
    ELSE IF ~IsParagraphText(lines, k) THEN ParagraphFrom(lines, k + 1)
    ELSE LET rest == ParagraphFrom(lines, k + 1)
         IN TrimSpace(lines[k])
            \o (IF rest = <<>> THEN <<>> ELSE <<" ">> \o rest)

\* every fence of the body has its closing fence
FencesClosed(lines) ==
    Cardinality({j \in 1..Len(lines) : IsFenceLine(lines, j)}) % 2 = 0

\* C18 Index-form description: for a body whose code blocks are closed, the
\* description is the first paragraph that is not empty, not a heading and
\* not part of a fenced code block (fence lines and the lines between them),
\* on one line; without such a paragraph it is "No description available".
C18_Description ==
    (pc = "returned" /\ FencesClosed(Split(arg, <<NL>>))) =>
        LET lines == Split(arg, <<NL>>)
            texts == {k \in 1..Len(lines) : IsParagraphText(lines, k)}
            first == CHOOSE k \in texts : \A j \in texts : k <= j
        IN IF texts = {} THEN ret = NoDescription
           ELSE ret = ParagraphFrom(lines, first)

----------------------------------------------------------------------------
(* LLMSTxtExporter.ToLLMSTxt *)

MaxIndexDocs == 3

\* filepath.Dir on a slash-separated path without volume name and without
\* . or .. elements: all but the last element, cleaned of trailing slashes
Dir(p) ==
    LET head == Slice(p, 0, LastSlash(p) + 1)
        cleaned == TrimSlashes(head)
    IN IF head = <<>> THEN S_dot
       ELSE IF cleaned = <<>> THEN <<"/">>
       ELSE cleaned

\* the keys of the map groupDocumentsBySection builds, each once, in the
\* order the documents introduce them
RECURSIVE SectionKeys(_, _)
SectionKeys(docs, seen) ==
    IF docs = <<>> THEN <<>>
    ELSE LET section == Dir(Head(docs).RelativePath)
         IN IF section \in seen THEN SectionKeys(Tail(docs), seen)
            ELSE <<section>> \o SectionKeys(Tail(docs), seen \cup {section})

\* grouped[section] of the map groupDocumentsBySection returns
RECURSIVE groupDocumentsBySection(_, _)
groupDocumentsBySection(docs, section) ==
    IF docs = <<>> THEN <<>>
    ELSE (IF Dir(Head(docs).RelativePath) = section THEN <<Head(docs)>> ELSE <<>>)
         \o groupDocumentsBySection(Tail(docs), section)

\* sort.Strings without the sorting: the slice stays in map iteration order
SortStrings_unsorted(strs) == strs

RECURSIVE InsertString(_, _)
InsertString(sorted, str) ==
    IF sorted = <<>> THEN <<str>>
    ELSE IF StrLess(str, Head(sorted)) THEN <<str>> \o sorted
    ELSE <<Head(sorted)>> \o InsertString(Tail(sorted), str)

RECURSIVE InsertAll(_, _)
InsertAll(sorted, strs) ==
    IF strs = <<>> THEN sorted
    ELSE InsertAll(InsertString(sorted, Head(strs)), Tail(strs))

\* sort.Strings
SortStrings(strs) == InsertAll(<<>>, strs)

S_Root == <<"R", "o", "o", "t">>

\* one line of the document list: - [Title](path): description
IndexItem(doc) ==
    <<"-", " ", "[">> \o doc.Title \o <<"]", "(">> \o doc.RelativePath
    \o <<")", ":", " ">> \o extractFirstParagraph(doc.Content) \o <<NL>>

RECURSIVE IndexItems(_)
IndexItems(docs) ==
    IF docs = <<>> THEN <<>> ELSE IndexItem(Head(docs)) \o IndexItems(Tail(docs))

\* what the loop over the sorted sections writes
RECURSIVE IndexSections(_, _)
IndexSections(docs, sectionNames) ==
    IF sectionNames = <<>> THEN <<>>
    ELSE LET section == Head(sectionNames)
             sectionTitle == IF section = S_dot \/ section = <<>>
                             THEN S_Root ELSE section
         IN <<"#", "#", " ">> \o sectionTitle \o <<NL, NL>>
            \o IndexItems(groupDocumentsBySection(docs, section)) \o <<NL>>
            \o IndexSections(docs, Tail(sectionNames))

\* ToLLMSTxt(documents, config), the range over the map giving its keys in
\* the order mapOrder
ToLLMSTxt(docs, config, mapOrder) ==
    <<"#", " ">> \o config.Name \o <<NL, NL>>
    \o <<">", " ">> \o config.Description \o <<NL, NL>>
    \o IndexSections(docs, SortStrings(mapOrder))

S_D_a_md == <<"D", "/", "a", ".", "m", "d">>
S_b_a_md == <<"b", "/", "a", ".", "m", "d">>
S_d_e_a_md == <<"d", "/", "e", "/", "a", ".", "m", "d">>

IndexPaths == {S_a_md, S_d_a_md, S_D_a_md, S_b_a_md, S_d_e_a_md}

\* the title of the i-th document, one letter each
IndexTitle(i) == <<<<"t", "u", "v", "w", "x", "y">>[i]>>

IndexConfig == [Name |-> <<"n">>, Description |-> <<"e">>]

InitIndex ==
    /\ pc = "index"
    /\ \E rels \in SeqsUpTo(IndexPaths, MaxIndexDocs) :
          arg = [k \in 1..Len(rels) |->
                    [Title |-> IndexTitle(k), RelativePath |-> rels[k],
                     Content |-> <<"a">>]]
    /\ ret = <<>>
    /\ walk = <<>>
    /\ IdleChunk
    /\ IdleLimits
    /\ IdleExport
    /\ IdleIgnore

\* ToLLMSTxt returns; the order in which the map yields its keys is free
ToLLMSTxtCall ==
    /\ pc = "index"
    /\ \E mapOrder \in Orderings(SectionKeys(arg, {})) :
          ret' = ToLLMSTxt(arg, IndexConfig, mapOrder)
    /\ pc' = "returned"
    /\ UNCHANGED <<arg, walk, chunkVars, exportVars, ignoreVars>>

NextIndex == ToLLMSTxtCall

SpecIndex == InitIndex /\ [][NextIndex]_vars

\* the directories of the documents in lexicographic order
SectionsInOrder(docs) ==
    LET dirs == {Dir(docs[k].RelativePath) : k \in 1..Len(docs)}
    IN [i \in 1..Cardinality(dirs) |->
           CHOOSE d \in dirs : Cardinality({e \in dirs : StrLess(e, d)}) = i - 1]

\* the lines of one section: its heading, a blank line, the line of each of
\* its documents in input order, a blank line
SectionLines(docs, dir) ==
    LET members == groupDocumentsBySection(docs, dir)
    IN <<<<"#", "#", " ">> \o (IF dir = S_dot THEN S_Root ELSE dir), <<>>>>
       \o [k \in 1..Len(members) |->
              SubSeq(IndexItem(members[k]), 1, Len(IndexItem(members[k])) - 1)]
       \o << <<>> >>

RECURSIVE AllSectionLines(_, _)
AllSectionLines(docs, dirs) ==
    IF dirs = <<>> THEN <<>>
    ELSE SectionLines(docs, Head(dirs)) \o AllSectionLines(docs, Tail(dirs))

\* C19 Index-form section order: after the four lines of the header the
\* output holds one section per parent directory, in lexicographic order of
\* the directory names with . titled Root, and each section lists exactly its
\* documents in input order, whatever order the map yields its keys in.
C19_SectionOrder ==
    pc = "returned" =>
        LET lines == Split(ret, <<NL>>)
        IN SubSeq(lines, 5, Len(lines) - 1)
              = AllSectionLines(arg, SectionsInOrder(arg))

C19_Witness ==
    /\ pc = "returned"
    /\ Len(arg) = 3
    /\ arg[1].RelativePath = S_d_a_md
    /\ arg[2].RelativePath = S_a_md
    /\ arg[3].RelativePath = S_d_a_md

----------------------------------------------------------------------------
(* MarkdownExporter.generateTableOfContents *)

MaxTocDocs == 2
MaxTocSections == 2

\* the highest section level that gets a bullet
TocMaxLevel == 2

\* strings.ReplaceAll(s, " ", "-")
SpacesToDashes(str) == [k \in 1..Len(str) |-> IF str[k] = " " THEN "-" ELSE str[k]]

\* the runes a-z, 0-9 and - among the characters titles are made of here
AnchorChars == {"a", "b", "d", "e", "m", "r", "t", "u", "v", "w", "x", "y", "z", "-"}

\* strings.Map dropping every rune that is not a-z, 0-9 or -
RECURSIVE KeepAnchorChars(_)
KeepAnchorChars(str) ==
    IF str = <<>> THEN <<>>
    ELSE (IF Head(str) \in AnchorChars THEN <<Head(str)>> ELSE <<>>)
         \o KeepAnchorChars(Tail(str))

\* the anchor of a title
Anchor(title) == KeepAnchorChars(SpacesToDashes(ToLower(title)))

\* strings.Repeat("  ", count) for count >= 0
RECURSIVE RepeatIndent(_)
RepeatIndent(count) ==
    IF count <= 0 THEN <<>> ELSE <<" ", " ">> \o RepeatIndent(count - 1)

\* fmt.Sprintf("%s- [%s](#%s)\n", indent, title, anchor)
TocBullet(indent, title) ==
    indent \o <<"-", " ", "[">> \o title \o <<"]", "(", "#">> \o Anchor(title)
    \o <<")", NL>>

\* the loop over doc.Sections without the test of the level
RECURSIVE TocSections_anyLevel(_)
TocSections_anyLevel(secs) ==
    IF secs = <<>> THEN <<>>
    ELSE TocBullet(RepeatIndent(Head(secs).Level - 1), Head(secs).Title)
         \o TocSections_anyLevel(Tail(secs))

\* the loop over doc.Sections
RECURSIVE TocSections(_)
TocSections(secs) ==
    IF secs = <<>> THEN <<>>
    ELSE (IF Head(secs).Level <= TocMaxLevel
          THEN TocBullet(RepeatIndent(Head(secs).Level - 1), Head(secs).Title)
          ELSE <<>>)
         \o TocSections(Tail(secs))

\* the loop over the documents
RECURSIVE TocDocuments(_)
TocDocuments(docs) ==
    IF docs = <<>> THEN <<>>
    ELSE TocBullet(<<>>, Head(docs).Title) \o TocSections(Head(docs).Sections)
         \o TocDocuments(Tail(docs))

S_TableOfContents ==
    <<"#", "#", " ", "T", "a", "b", "l", "e", " ", "o", "f", " ",
      "C", "o", "n", "t", "e", "n", "t", "s">>

generateTableOfContents(docs) ==
    S_TableOfContents \o <<NL, NL>> \o TocDocuments(docs)

\* the sections a document may have: a title under a level ExtractSections
\* can give
TocSectionTitle == <<"A", " ", "#", "z">>
TocLevels == 1..(TocMaxLevel + 1)
TocSectionLists ==
    {[k \in 1..Len(levels) |-> [Title |-> TocSectionTitle, Level |-> levels[k]]] :
        levels \in SeqsUpTo(TocLevels, MaxTocSections)}

InitToc ==
    /\ pc = "toc"
    /\ \E lists \in SeqsUpTo(TocSectionLists, MaxTocDocs) :
          arg = [k \in 1..Len(lists) |->
                    [Title |-> IndexTitle(k), Sections |-> lists[k]]]
    /\ ret = <<>>
    /\ walk = <<>>
    /\ IdleChunk
    /\ IdleLimits
    /\ IdleExport
    /\ IdleIgnore

generateTableOfContentsCall ==
    /\ pc = "toc"
    /\ ret' = generateTableOfContents(arg)
    /\ pc' = "returned"
    /\ UNCHANGED <<arg, walk, chunkVars, exportVars, ignoreVars>>

NextToc == generateTableOfContentsCall

SpecToc == InitToc /\ [][NextToc]_vars

\* a bullet line for a title, without its newline
BulletLine(indent, title) ==
    indent \o <<"-", " ", "[">> \o title \o <<"]", "(", "#">> \o Anchor(title)
    \o <<")">>

\* the bullets of the sections of level 1 and 2, each indented by two spaces
RECURSIVE NestedBullets(_)
NestedBullets(secs) ==
    IF secs = <<>> THEN <<>>
    ELSE (IF Head(secs).Level <= 2
          THEN <<BulletLine(<<" ", " ">>, Head(secs).Title)>>
          ELSE <<>>)
         \o NestedBullets(Tail(secs))

RECURSIVE DocumentBullets(_)
DocumentBullets(docs) ==
    IF docs = <<>> THEN <<>>
    ELSE <<BulletLine(<<>>, Head(docs).Title)>>
         \o NestedBullets(Head(docs).Sections)
         \o DocumentBullets(Tail(docs))

\* C20 as stated: after its heading the table holds, per document in input
\* order, one unindented bullet and directly under it one bullet indented by
\* two spaces per section of level 1 or 2; sections of a higher level have no
\* bullet.
C20_TableOfContents ==
    pc = "returned" =>
        LET lines == Split(ret, <<NL>>)
        IN SubSeq(lines, 3, Len(lines) - 1) = DocumentBullets(arg)

\* the bullets of the sections of level 1 and 2: a level-1 section without
\* indentation, a level-2 section indented by two spaces
RECURSIVE LevelBullets(_)
LevelBullets(secs) ==
    IF secs = <<>> THEN <<>>
    ELSE (CASE Head(secs).Level = 1 -> <<BulletLine(<<>>, Head(secs).Title)>>
            [] Head(secs).Level = 2 -> <<BulletLine(<<" ", " ">>, Head(secs).Title)>>
            [] OTHER -> <<>>)
         \o LevelBullets(Tail(secs))

RECURSIVE DocumentLevelBullets(_)
DocumentLevelBullets(docs) ==
    IF docs = <<>> THEN <<>>
    ELSE <<BulletLine(<<>>, Head(docs).Title)>>
         \o LevelBullets(Head(docs).Sections)
         \o DocumentLevelBullets(Tail(docs))

\* C20 Table of contents: after its heading the table holds, per document in
\* input order, one unindented bullet and directly under it one bullet per
\* section of level 1 or 2, a level-1 section unindented and a level-2
\* section indented by two spaces; sections of a higher level have no bullet.
C20_TocByLevel ==
    pc = "returned" =>
        LET lines == Split(ret, <<NL>>)
        IN SubSeq(lines, 3, Len(lines) - 1) = DocumentLevelBullets(arg)

C20_Witness ==
    /\ pc = "returned"
    /\ Len(arg) = 2
    /\ Len(arg[1].Sections) = 2
    /\ arg[1].Sections[1].Level = 1
    /\ arg[1].Sections[2].Level = 2
    /\ Len(arg[2].Sections) = 2
    /\ arg[2].Sections[1].Level = 3
    /\ arg[2].Sections[2].Level = 2

----------------------------------------------------------------------------
(* Progress and termination of FixedSizeStrategy.Chunk *)

\* an iteration of the loop that goes on to a next iteration
FixedIteration == pc = "fixed" /\ strategy = "fixed" /\ pc' = "fixed"

\* C21 Fixed-size progress: for a valid pair of limits every iteration of the
\* loop of FixedSizeStrategy.Chunk moves startPos strictly forward; the loop
\* therefore has run at most startPos iterations, startPos stays below
\* len(body), so the call returns after at most len(body) iterations; and the
\* last chunk returned ends at len(body).
C21_FixedProgress ==
    /\ [][(FixedIteration /\ ValidLimits) => startPos' > startPos]_vars
    /\ []((pc = "fixed" /\ strategy = "fixed" /\ ValidLimits) =>
             ( /\ chunkID <= startPos
               /\ startPos < Len(content)
               /\ Len(chunks) = chunkID
               /\ Len(chunks) < MaxChunks))
    /\ []((strategy = "fixed" /\ ValidLimits /\ Returned) =>
             ( /\ chunks # <<>>
               /\ chunks[Len(chunks)].EndPos = Len(content)))

C21_Witness ==
    /\ strategy = "fixed"
    /\ ValidLimits
    /\ overlapTokens > 0
    /\ Returned
    /\ Len(chunks) >= 3

----------------------------------------------------------------------------
(* Progress of RecursiveStrategy.recursiveSplit *)

\* C22 Recursive progress: for max_tokens >= 1 a recursiveSplit call either
\* emits a chunk and calls nothing, or every call it makes is on the same
\* text one separator depth further or on strictly shorter text; the depth
\* stays below the number of separators, so the recursion is finite.
C22_RecursiveProgress ==
    /\ [][(pc = "recursive" /\ stack # <<>> /\ maxTokens >= 1
           /\ Count(stack[1].text) <= maxTokens) =>
            (Len(chunks') = Len(chunks) + 1 /\ stack' = Tail(stack))]_vars
    /\ []((pc = "recursive" /\ stack # <<>> /\ maxTokens >= 1
           /\ Count(stack[1].text) > maxTokens) =>
            LET f == stack[1]
                calls == RecursiveCalls(f.text, f.offset, f.depth, maxTokens)
            IN \A k \in 1..Len(calls) :
                  \/ /\ calls[k].text = f.text
                     /\ calls[k].depth = f.depth + 1
                  \/ Len(calls[k].text) < Len(f.text))
    /\ []((pc = "recursive" /\ maxTokens >= 1) =>
             \A k \in 1..Len(stack) :
                /\ stack[k].depth < Len(Separators)
                /\ Len(stack[k].text) <= Len(content))

\* a text without any separator that does not fit has reached the last depth
C22_Witness ==
    /\ pc = "recursive"
    /\ maxTokens >= 1
    /\ stack # <<>>
    /\ stack[1].text = content
    /\ stack[1].depth = Len(Separators) - 1
    /\ Count(content) > maxTokens

----------------------------------------------------------------------------
(* Overlap of the chunks of FixedSizeStrategy.Chunk *)

\* C23 as stated: whenever the fixed-size strategy returns more than one
\* chunk for a valid pair of limits with overlap_tokens > 0, every chunk
\* starts before the end of the chunk before it.
C23_FixedOverlap ==
    (/\ strategy = "fixed"
     /\ Returned
     /\ ValidLimits
     /\ overlapTokens > 0
     /\ Len(chunks) > 1) =>
        \A k \in 1..(Len(chunks) - 1) : chunks[k + 1].StartPos < chunks[k].EndPos

\* C23 Fixed-size overlap: whenever the fixed-size strategy returns more than
\* one chunk for a valid pair of limits with overlap_tokens > 0, no chunk
\* starts after the end of the chunk before it; it starts before that end
\* when the chunk before it holds more than overlap_tokens tokens and exactly
\* at that end otherwise.
C23_OverlapWhenLarger ==
    (/\ strategy = "fixed"
     /\ Returned
     /\ ValidLimits
     /\ overlapTokens > 0
     /\ Len(chunks) > 1) =>
        \A k \in 1..(Len(chunks) - 1) :
            IF chunks[k].TokenCount > overlapTokens
            THEN chunks[k + 1].StartPos < chunks[k].EndPos
            ELSE chunks[k + 1].StartPos = chunks[k].EndPos

C23_Witness ==
    /\ strategy = "fixed"
    /\ Returned
    /\ ValidLimits
    /\ overlapTokens > 0
    /\ Len(chunks) > 2
    /\ chunks[1].TokenCount > overlapTokens
    /\ chunks[2].StartPos < chunks[1].EndPos
    /\ chunks[2].TokenCount <= overlapTokens
    /\ chunks[3].StartPos = chunks[2].EndPos

----------------------------------------------------------------------------
(* SemanticStrategy.Chunk and FixedSizeStrategy.Chunk *)

\* C24 Semantic fallback equivalence: FixedSizeStrategy.Chunk returns the
\* chunk list FixedChunk gives for its arguments, and SemanticStrategy.Chunk
\* returns that same list for the same arguments (ids, texts, offsets and
\* token counts), and does not return exactly when the fixed-size call does
\* not.
C24_SemanticEquivalence ==
    LET fixed == FixedChunk(content, doc_ID, maxTokens, overlapTokens)
    IN /\ (strategy = "fixed" /\ Returned) => (~fixed.hang /\ chunks = fixed.chunks)
       /\ (strategy = "semantic" /\ Returned) => (~fixed.hang /\ chunks = fixed.chunks)
       /\ (strategy = "semantic" /\ pc = "hang") => fixed.hang

C24_Witness ==
    /\ strategy = "semantic"
    /\ Returned
    /\ overlapTokens > 0
    /\ Len(chunks) >= 2
    /\ chunks[2].StartPos < chunks[1].EndPos

----------------------------------------------------------------------------
(* Sections of MarkdownHeaderStrategy.Chunk *)

\* the indices (1-based) of the lines that start a section: the first line
\* and every later line that the header pattern matches
SectionStarts(lines) == {1} \cup {k \in 2..Len(lines) : IsHeaderLine(lines[k])}

\* the text of the section that starts at line k: the lines up to the line
\* before the next start
SectionText(lines, k) ==
    LET later == {j \in SectionStarts(lines) : j > k}
        last == IF later = {} THEN Len(lines)
                ELSE (CHOOSE j \in later : \A m \in later : j <= m) - 1
    IN Join(SubSeq(lines, k, last), <<NL>>)

\* the section texts in the order of the body
SectionTexts(text) ==
    LET lines == Split(text, <<NL>>)
        starts == SectionStarts(lines)
    IN [n \in 1..Cardinality(starts) |->
           SectionText(lines,
               CHOOSE k \in starts : Cardinality({j \in starts : j < k}) = n - 1)]

\* C25 Header split: the header-bounded strategy starts a section at every
\* line but the first that the header pattern matches; when every section
\* fits within max_tokens it returns exactly one chunk per section, in order,
\* each holding the text of its section, and every chunk after the first
\* begins with its header line.
C25_HeaderSplit ==
    LET texts == SectionTexts(content)
    IN (/\ strategy = "headers"
        /\ Returned
        /\ \A n \in 1..Len(texts) : Count(texts[n]) <= maxTokens) =>
           /\ Len(chunks) = Len(texts)
           /\ \A n \in 1..Len(chunks) :
                 /\ chunks[n].Text = texts[n]
                 /\ chunks[n].ID = ChunkIDOf(doc_ID, n - 1)
                 /\ n > 1 => IsHeaderLine(Split(chunks[n].Text, <<NL>>)[1])

C25_Witness ==
    /\ strategy = "headers"
    /\ Returned
    /\ Len(SectionTexts(content)) = 2
    /\ \A n \in 1..2 : Count(SectionTexts(content)[n]) <= maxTokens
    /\ Len(chunks) = 2
    /\ chunks[2].Text = <<"#", " ", "#">>

----------------------------------------------------------------------------
(* The body ExtractFrontmatter returns *)

ClosingDelimiter == <<NL>> \o Dashes \o <<NL>>

\* the offsets after the opening delimiter at which the closing delimiter
\* stands
ClosingOffsets(fileContent) ==
    {k \in Len(Dashes \o <<NL>>)..(Len(fileContent) - Len(ClosingDelimiter)) :
        Slice(fileContent, k, k + Len(ClosingDelimiter)) = ClosingDelimiter}

\* C26 Frontmatter body suffix: when the content begins with the opening
\* delimiter and the closing delimiter follows, the body is exactly what
\* follows the first closing delimiter, and the mapping is empty but present.
C26_FrontmatterBody ==
    (/\ pc = "returned"
     /\ HasPrefix(arg, Dashes \o <<NL>>)
     /\ ClosingOffsets(arg) # {}) =>
        LET first == CHOOSE k \in ClosingOffsets(arg) :
                        \A j \in ClosingOffsets(arg) : k <= j
        IN /\ ret.body = Slice(arg, first + Len(ClosingDelimiter), Len(arg))
           /\ ret.metadata = EmptyMap

----------------------------------------------------------------------------
(* Totality of ShouldIgnore *)

\* C27 ShouldIgnore is total: for every pattern list and path the call
\* returns true or false and never fails on a slice out of range.
C27_ShouldIgnoreTotal ==
    /\ pc # "panic"
    /\ result # "panic"
    /\ pc = "done" => result \in {"true", "false"}

----------------------------------------------------------------------------
(* Termination of FixedSizeStrategy.Chunk on every pair of limits *)

\* C28 Fixed-size termination without validation: for every max_tokens and
\* overlap_tokens every iteration of the loop of FixedSizeStrategy.Chunk
\* moves startPos forward, so the loop runs at most len(body) times and the
\* call returns a finite chunk list.
C28_FixedTerminates ==
    /\ [][FixedIteration => startPos' > startPos]_vars
    /\ []((pc = "fixed" /\ strategy = "fixed") => Len(chunks) <= Len(content))

----------------------------------------------------------------------------
(* Ends of the chunks of FixedSizeStrategy.Chunk *)

\* C29 Fixed-size chunks advance at both ends: for a valid pair of limits
\* the ends of the chunks FixedSizeStrategy.Chunk returns are strictly
\* increasing, so no chunk lies within the byte range of the chunk before it.
C29_EndsIncrease ==
    (strategy = "fixed" /\ Returned /\ ValidLimits) =>
        \A k \in 1..(Len(chunks) - 1) :
            /\ chunks[k + 1].EndPos > chunks[k].EndPos
            /\ ~(/\ chunks[k].StartPos <= chunks[k + 1].StartPos
                 /\ chunks[k + 1].EndPos <= chunks[k].EndPos)

----------------------------------------------------------------------------
(* RecursiveStrategy.Chunk and its overlap argument *)

\* RecursiveStrategy.Chunk as a function of the arguments it reads: the
\* chunks of the pending calls, in order, numbered from n
RECURSIVE RecursiveRun(_, _, _, _)
RecursiveRun(pending, docID, maxT, n) ==
    IF pending = <<>> THEN <<>>
    ELSE LET f == pending[1]
         IN IF Count(f.text) <= maxT
            THEN <<MkChunk(ChunkIDOf(docID, n), f.text, f.offset,
                           f.offset + Len(f.text), Count(f.text))>>
                 \o RecursiveRun(Tail(pending), docID, maxT, n + 1)
            ELSE RecursiveRun(RecursiveCalls(f.text, f.offset, f.depth, maxT)
                              \o Tail(pending), docID, maxT, n)

RecursiveChunk(text, docID, maxT) ==
    IF Count(text) <= maxT THEN FixedWhole(text, docID)
    ELSE RecursiveRun(<<Frame(text, 0, 0)>>, docID, maxT, 0)

\* C30 Recursive strategy ignores overlap: for max_tokens >= 1 the chunks
\* RecursiveStrategy.Chunk returns are those of the call with overlap 0,
\* whatever overlap_tokens is, their byte ranges are ascending and disjoint
\* (each chunk ends at or before the start of the next), and the last one
\* ends at or before len(body).
C30_RecursiveIgnoresOverlap ==
    (strategy = "recursive" /\ Returned /\ maxTokens >= 1) =>
        /\ chunks = RecursiveChunk(content, doc_ID, maxTokens)
        /\ \A k \in 1..(Len(chunks) - 1) : chunks[k].EndPos <= chunks[k + 1].StartPos
        /\ chunks # <<>> => chunks[Len(chunks)].EndPos <= Len(content)

C30_Witness ==
    /\ strategy = "recursive"
    /\ Returned
    /\ maxTokens >= 1
    /\ overlapTokens > 0
    /\ Len(chunks) >= 3

====
